---- MODULE Spec2Model ----
(***************************************************************************)
(* A model of the quadratic-program layer of qiskit.optimization:          *)
(*   - QuadraticProgram (problems/quadratic_program.py): the named,        *)
(*     index-addressable collections of variables and constraints and the  *)
(*     objective;                                                          *)
(*   - SubstituteVariables (same file): the substitution engine;           *)
(*   - IsingToQuadraticProgram (converters/ising_to_quadratic_program.py); *)
(*   - QuadraticProgramToQubo (converters/quadratic_program_to_qubo.py).   *)
(*                                                                         *)
(* Python values are modelled as follows.                                  *)
(*   list            a sequence; Python position i is element i+1          *)
(*   dict            a function whose DOMAIN is the set of keys            *)
(*   None / value    <<>> / <<value>>                                      *)
(*   dok_matrix      a function from the STORED keys to coefficients (an   *)
(*                   explicitly stored zero is a key of the function)      *)
(*   float           an integer for coefficients and right-hand sides; a   *)
(*                   rational <<n, d>> for variable bounds, with the two   *)
(*                   infinite bounds PosInf and NegInf                     *)
(***************************************************************************)
EXTENDS Integers, Sequences, FiniteSets, TLC

VARIABLES
    qp,             \* the QuadraticProgram under construction
    call,           \* the last call made on qp: its name, arguments, outcome
    lastObjective,  \* the arguments of the last minimize/maximize call on qp
    src,            \* substitute_variables: the source program (self._src)
    constants,      \* its argument `constants`: the items (i, v) in dict order
    variables,      \* its argument `variables`: the items (i, (j, v)) in dict order
    subs,           \* self._subs: the items (i, (j, v)) in dict order
    dst,            \* the destination program (self._dst)
    results,        \* the statuses the passes have returned so far
    pc,             \* where the call of substitute_variables stands
    outcome,        \* what the call returned or raised
    ising,          \* the IsingToQuadraticProgram object (self) of a convert call
    isingFrame,     \* the arguments and locals of that call, and where it stands
    isingOut,       \* what the call returned or raised
    qubo,           \* the QuadraticProgramToQubo object (self) and its three stages
    quboFrame,      \* the arguments and locals of its convert/interpret call
    quboCalls,      \* the calls made on the three stages, in order
    prims,          \* the Instruction objects made so far (the gate payloads)
    nodes,          \* the operator nodes made so far, in order of construction
    opCall,         \* the last operation on the nodes: its arguments and outcome
    aqgd,           \* the AQGD object (self) of an optimize call
    aqgdFrame,      \* the arguments and locals of that call, and where it stands
    aqgdLog         \* the parameters at each call of converged_parameter

qpVars == <<qp, call, lastObjective>>

subVars == <<src, constants, variables, subs, dst, results, pc, outcome>>

isingVars == <<ising, isingFrame, isingOut>>

quboVars == <<qubo, quboFrame, quboCalls>>

opVars == <<prims, nodes, opCall>>

aqgdVars == <<aqgd, aqgdFrame, aqgdLog>>

algVars == <<opVars, aqgdVars>>

convVars == <<isingVars, quboVars, algVars>>

progVars == <<qpVars, subVars, isingVars, quboVars>>

vars == <<qp, call, lastObjective, src, constants, variables, subs, dst, results, pc,
          outcome, ising, isingFrame, isingOut, qubo, quboFrame, quboCalls,
          prims, nodes, opCall, aqgd, aqgdFrame, aqgdLog>>

-----------------------------------------------------------------------------
(* Python helpers *)

None == <<>>

Some(v) == <<v>>

\* the value an Optional argument holds
Val(opt) == opt[1]

\* len(list)
len(list) == Len(list)

\* list[i] for an int i: negative i counts from the end, anything outside
\* -len..len-1 raises IndexError
ListGetItem(list, i) ==
    IF i >= 0 /\ i < Len(list) THEN [raised |-> "none", ret |-> Some(list[i + 1])]
    ELSE IF i < 0 /\ i >= -Len(list)
         THEN [raised |-> "none", ret |-> Some(list[Len(list) + i + 1])]
         ELSE [raised |-> "IndexError", ret |-> None]

\* dict[k]: KeyError when k is no key
DictGetItem(dict, k) ==
    IF k \in DOMAIN dict THEN [raised |-> "none", ret |-> Some(dict[k])]
    ELSE [raised |-> "KeyError", ret |-> None]

\* dict[k] = v
DictSetItem(dict, k, v) == [x \in (DOMAIN dict) \cup {k} |-> IF x = k THEN v ELSE dict[x]]

EmptyDict == <<>>

\* '<prefix>{}'.format(k)
Format(prefix, k) == prefix \o ToString(k)

-----------------------------------------------------------------------------
(* Numbers used as variable bounds: rationals <<n, d>>, d > 0, in lowest     *)
(* terms, and the two infinite bounds.                                       *)

PosInf == <<1, 0>>

NegInf == <<-1, 0>>

Abs(n) == IF n < 0 THEN -n ELSE n

RECURSIVE Gcd(_, _)
Gcd(a, b) == IF b = 0 THEN a ELSE Gcd(b, a % b)

Rat(n, d) ==
    LET g == Gcd(Abs(n), Abs(d))
        s == IF d < 0 THEN -1 ELSE 1
    IN  <<(s * n) \div g, (s * d) \div g>>

Int2Rat(n) == <<n, 1>>

\* abs(x) < infinity
IsFinite(x) == x[2] # 0

\* -x
RatNeg(x) == <<-x[1], x[2]>>

\* x / v for a finite x and an int v # 0 (true division)
RatDiv(x, v) == Rat(x[1], x[2] * v)

\* x * v for a finite x and an int v
RatMul(x, v) == Rat(x[1] * v, x[2])

\* x <= y
RatLE(x, y) ==
    IF x = y THEN TRUE
    ELSE IF x = NegInf \/ y = PosInf THEN TRUE
    ELSE IF x = PosInf \/ y = NegInf THEN FALSE
    ELSE x[1] * y[2] <= y[1] * x[2]

\* x > y
RatGT(x, y) == ~RatLE(x, y)

\* max(x, y), min(x, y): Python returns the first argument on a tie
RatMax(x, y) == IF RatGT(y, x) THEN y ELSE x

RatMin(x, y) == IF RatGT(x, y) THEN y ELSE x

-----------------------------------------------------------------------------
(* The value classes of qiskit.optimization.problems.                       *)

VarTypes == {"CONTINUOUS", "BINARY", "INTEGER"}

\* Variable(quadratic_program, name, lowerbound, upperbound, vartype): the
\* field quadratic_program holds the identity of the program the variable
\* object belongs to
Variable(quadratic_program, name, lowerbound, upperbound, vartype) ==
    [quadratic_program |-> quadratic_program, name |-> name, lowerbound |-> lowerbound,
     upperbound |-> upperbound, vartype |-> vartype]

\* v and w are one object
SameObject(v, w) == v.quadratic_program = w.quadratic_program /\ v.name = w.name

\* str.upper() on the sense strings the model passes
Upper(s) ==
    CASE s = "le" -> "LE"
      [] s = "ge" -> "GE"
      [] s = "eq" -> "EQ"
      [] s = "l" -> "L"
      [] s = "g" -> "G"
      [] s = "e" -> "E"
      [] OTHER -> s

\* ConstraintSense.convert(sense): sense is a Sense ([t |-> "Sense"]) or a
\* string ([t |-> "str"])
ConstraintSenseConvert(sense) ==
    IF sense.t = "Sense" THEN [raised |-> "none", ret |-> sense.s]
    ELSE LET u == Upper(sense.s) IN
         IF u \notin {"E", "L", "G", "EQ", "LE", "GE", "=", "==", "<=", "<", ">=", ">"}
         THEN [raised |-> "QiskitOptimizationError", ret |-> "none"]
         ELSE IF u \in {"E", "EQ", "=", "=="} THEN [raised |-> "none", ret |-> "EQ"]
         ELSE IF u \in {"L", "LE", "<=", "<"} THEN [raised |-> "none", ret |-> "LE"]
         ELSE [raised |-> "none", ret |-> "GE"]

Sense(s) == [t |-> "Sense", s |-> s]

Str(s) == [t |-> "str", s |-> s]

\* dok_matrix: m[key] (0 when the key is not stored) and m.nnz (the number of
\* stored keys)
DokGet(m, key) == IF key \in DOMAIN m THEN m[key] ELSE 0

nnz(m) == Cardinality(DOMAIN m)

\* dok_matrix.__add__: a copy of m1 updated with (k, m1[k] + m2[k]) for every
\* stored key k of m2; the sums are stored as they are, zero or not
DokAdd(m1, m2) ==
    [k \in (DOMAIN m1) \cup (DOMAIN m2) |->
        IF k \in DOMAIN m2 THEN DokGet(m1, k) + m2[k] ELSE m1[k]]

\* Coefficient arguments: a dict keyed by variable names ("names"), a dict
\* keyed by variable indices ("index"), or a sparse matrix ("dok").
ByName(d) == [fmt |-> "names", coef |-> d]

ByIndex(d) == [fmt |-> "index", coef |-> d]

AsDok(m) == [fmt |-> "dok", coef |-> m]

\* a new dok_matrix filled by m[key] = d[key] for every key of the dict d:
\* assigning a zero stores nothing
DokFromDict(d) == [k \in {k \in DOMAIN d : d[k] # 0} |-> d[k]]

\* the same for a dict keyed by variable names (pairs of names), each name
\* replaced by quadratic_program.variables_index[name]
LinearKeysToIndex(p, d) ==
    [i \in {p.variables_index[n] : n \in DOMAIN d} |->
        d[CHOOSE n \in DOMAIN d : p.variables_index[n] = i]]

QuadraticKeysToIndex(p, d) ==
    [k \in {<<p.variables_index[n[1]], p.variables_index[n[2]]>> : n \in DOMAIN d} |->
        d[CHOOSE n \in DOMAIN d :
            <<p.variables_index[n[1]], p.variables_index[n[2]]>> = k]]

\* LinearExpression(quadratic_program, coefficients).coefficients
LinearExpression(p, coefficients) ==
    IF coefficients.fmt = "dok"
    THEN [raised |-> "none", ret |-> coefficients.coef]
    ELSE IF coefficients.fmt = "index"
    THEN [raised |-> "none", ret |-> DokFromDict(coefficients.coef)]
    ELSE IF \E k \in DOMAIN coefficients.coef : k \notin DOMAIN p.variables_index
    THEN [raised |-> "KeyError", ret |-> EmptyDict]
    ELSE [raised |-> "none",
          ret |-> DokFromDict(LinearKeysToIndex(p, coefficients.coef))]

\* QuadraticExpression(quadratic_program, coefficients).coefficients; the keys
\* are pairs <<i, j>>
QuadraticExpression(p, coefficients) ==
    IF coefficients.fmt = "dok"
    THEN [raised |-> "none", ret |-> coefficients.coef]
    ELSE IF coefficients.fmt = "index"
    THEN [raised |-> "none", ret |-> DokFromDict(coefficients.coef)]
    ELSE IF \E k \in DOMAIN coefficients.coef :
              k[1] \notin DOMAIN p.variables_index \/ k[2] \notin DOMAIN p.variables_index
    THEN [raised |-> "KeyError", ret |-> EmptyDict]
    ELSE [raised |-> "none",
          ret |-> DokFromDict(QuadraticKeysToIndex(p, coefficients.coef))]

\* LinearExpression.to_dict(use_name=True)
ToDictNamed(p, m) ==
    [n \in {p.variables[i + 1].name : i \in DOMAIN m} |->
        m[CHOOSE i \in DOMAIN m : p.variables[i + 1].name = n]]

\* QuadraticExpression.to_dict(use_name=True)
QuadToDictNamed(p, m) ==
    [n \in {<<p.variables[k[1] + 1].name, p.variables[k[2] + 1].name>> : k \in DOMAIN m} |->
        m[CHOOSE k \in DOMAIN m :
            <<p.variables[k[1] + 1].name, p.variables[k[2] + 1].name>> = n]]

\* QuadraticObjective(quadratic_program, constant, linear, quadratic, sense):
\* an omitted (None) linear or quadratic part is empty
QuadraticObjective(p, constant, linear, quadratic, sense) ==
    LET lin  == IF linear = None THEN [raised |-> "none", ret |-> EmptyDict]
                ELSE LinearExpression(p, Val(linear))
        quad == IF quadratic = None THEN [raised |-> "none", ret |-> EmptyDict]
                ELSE QuadraticExpression(p, Val(quadratic))
    IN  IF lin.raised # "none" THEN [raised |-> lin.raised, ret |-> None]
        ELSE IF quad.raised # "none" THEN [raised |-> quad.raised, ret |-> None]
        ELSE [raised |-> "none",
              ret |-> Some([constant |-> constant, linear |-> lin.ret,
                            quadratic |-> quad.ret, sense |-> sense])]

\* the objective of a new program: QuadraticObjective(self)
DefaultObjective ==
    [constant |-> 0, linear |-> EmptyDict, quadratic |-> EmptyDict, sense |-> "MINIMIZE"]

\* LinearConstraint(quadratic_program, name, linear, sense, rhs)
LinearConstraint(p, name, linear, sense, rhs) ==
    LET lin == LinearExpression(p, linear)
    IN  IF lin.raised # "none" THEN [raised |-> lin.raised, ret |-> None]
        ELSE [raised |-> "none",
              ret |-> Some([name |-> name, linear |-> lin.ret, sense |-> sense,
                            rhs |-> rhs])]

\* QuadraticConstraint(quadratic_program, name, linear, quadratic, sense, rhs)
QuadraticConstraint(p, name, linear, quadratic, sense, rhs) ==
    LET lin  == LinearExpression(p, linear)
        quad == QuadraticExpression(p, quadratic)
    IN  IF lin.raised # "none" THEN [raised |-> lin.raised, ret |-> None]
        ELSE IF quad.raised # "none" THEN [raised |-> quad.raised, ret |-> None]
        ELSE [raised |-> "none",
              ret |-> Some([name |-> name, linear |-> lin.ret, quadratic |-> quad.ret,
                            sense |-> sense, rhs |-> rhs])]

-----------------------------------------------------------------------------
(* QuadraticProgram.  Every operation maps a program p to a record           *)
(* [p |-> the program after the call, raised |-> the exception ("none" when  *)
(* the call returns), ret |-> the returned value].                           *)

\* QuadraticProgram(name)
QuadraticProgram(name) ==
    [id |-> 0, name |-> name,
     variables |-> <<>>, variables_index |-> EmptyDict,
     linear_constraints |-> <<>>, linear_constraints_index |-> EmptyDict,
     quadratic_constraints |-> <<>>, quadratic_constraints_index |-> EmptyDict,
     objective |-> DefaultObjective]

\* clear()
clear(p) ==
    [p |-> [QuadraticProgram("") EXCEPT !.id = p.id], raised |-> "none", ret |-> None]

\* the program p as it is when the variable object var has got the bounds lb, ub
SetBounds(p, var, lb, ub) ==
    [p EXCEPT !.variables =
        [k \in DOMAIN @ |->
            IF SameObject(@[k], var)
            THEN [@[k] EXCEPT !.lowerbound = lb, !.upperbound = ub]
            ELSE @[k]]]

\* the new object p, which is not the object q
NewObject(p, q) == [p EXCEPT !.id = q.id + 1]

\* `if name:` is false for None and for the empty string
Truthy(name) == name # None /\ Val(name) # ""

\* k = start; while '<prefix>{k}' in index: k += 1
\* the naming loop without its test: the name is taken from the count alone
WhileTaken_once(prefix, k, index) == k

RECURSIVE WhileTaken(_, _, _)
WhileTaken(prefix, k, index) ==
    IF Format(prefix, k) \in DOMAIN index THEN WhileTaken(prefix, k + 1, index) ELSE k

get_num_vars(p) == len(p.variables)

get_num_linear_constraints(p) == len(p.linear_constraints)

get_num_quadratic_constraints(p) == len(p.quadratic_constraints)

\* _add_variable without the duplicate-name check
_add_variable_unchecked(p, name, lowerbound, upperbound, vartype) ==
    LET nm == IF Truthy(name) THEN Val(name)
              ELSE Format("x", WhileTaken("x", get_num_vars(p), p.variables_index))
        variable == Variable(p.id, nm, lowerbound, upperbound, vartype)
    IN  [p |-> [p EXCEPT !.variables_index = DictSetItem(@, nm, len(p.variables)),
                         !.variables = Append(@, variable)],
         raised |-> "none", ret |-> Some(variable)]

\* _add_variable(name, lowerbound, upperbound, vartype)
_add_variable(p, name, lowerbound, upperbound, vartype) ==
    IF Truthy(name) /\ Val(name) \in DOMAIN p.variables_index
    THEN [p |-> p, raised |-> "QiskitOptimizationError", ret |-> None]
    ELSE LET nm == IF Truthy(name) THEN Val(name)
                   ELSE Format("x", WhileTaken("x", get_num_vars(p), p.variables_index))
             variable == Variable(p.id, nm, lowerbound, upperbound, vartype)
         IN  [p |-> [p EXCEPT !.variables_index = DictSetItem(@, nm, len(p.variables)),
                              !.variables = Append(@, variable)],
              raised |-> "none", ret |-> Some(variable)]

continuous_var(p, name, lowerbound, upperbound) ==
    _add_variable(p, name, lowerbound, upperbound, "CONTINUOUS")

binary_var(p, name) == _add_variable(p, name, Int2Rat(0), Int2Rat(1), "BINARY")

integer_var(p, name, lowerbound, upperbound) ==
    _add_variable(p, name, lowerbound, upperbound, "INTEGER")

\* i is an int ([t |-> "int"], the int in field n) or a name ([t |-> "str"], the
\* name in field s)
IntKey(i) == [t |-> "int", n |-> i, s |-> ""]

StrKey(s) == [t |-> "str", n |-> 0, s |-> s]

\* a lookup that falls back to position 0 for a name that is no key
GetByKey_default(list, index, i) ==
    IF i.t = "int" THEN ListGetItem(list, i.n)
    ELSE ListGetItem(list, IF i.s \in DOMAIN index THEN index[i.s] ELSE 0)

\* get_*(i): self.<list>[i] for an int, self.<list>[self._<index>[i]] otherwise
GetByKey(list, index, i) ==
    IF i.t = "int" THEN ListGetItem(list, i.n)
    ELSE LET at == DictGetItem(index, i.s)
         IN  IF at.raised # "none" THEN [raised |-> at.raised, ret |-> None]
             ELSE ListGetItem(list, Val(at.ret))

get_variable(p, i) == GetByKey(p.variables, p.variables_index, i)

get_linear_constraint(p, i) ==
    GetByKey(p.linear_constraints, p.linear_constraints_index, i)

get_quadratic_constraint(p, i) ==
    GetByKey(p.quadratic_constraints, p.quadratic_constraints_index, i)

\* linear_constraint that registers the name before it tests for a duplicate
linear_constraint_register_first(p, linear, sense, rhs, name) ==
    LET nm == IF Truthy(name) THEN Val(name)
              ELSE Format("c", WhileTaken("c", get_num_linear_constraints(p),
                                          p.linear_constraints_index))
        p1 == [p EXCEPT !.linear_constraints_index =
                            DictSetItem(@, nm, len(p.linear_constraints))]
        lin == IF linear = None THEN ByIndex(EmptyDict) ELSE Val(linear)
        sns == ConstraintSenseConvert(sense)
        constraint == LinearConstraint(p1, nm, lin, sns.ret, rhs)
    IN  IF Truthy(name) /\ Val(name) \in DOMAIN p.linear_constraints_index
        THEN [p |-> p1, raised |-> "QiskitOptimizationError", ret |-> None]
        ELSE IF sns.raised # "none" THEN [p |-> p1, raised |-> sns.raised, ret |-> None]
        ELSE IF constraint.raised # "none"
        THEN [p |-> p1, raised |-> constraint.raised, ret |-> None]
        ELSE [p |-> [p1 EXCEPT !.linear_constraints = Append(@, Val(constraint.ret))],
              raised |-> "none", ret |-> constraint.ret]

linear_constraint(p, linear, sense, rhs, name) ==
    IF Truthy(name) /\ Val(name) \in DOMAIN p.linear_constraints_index
    THEN [p |-> p, raised |-> "QiskitOptimizationError", ret |-> None]
    ELSE LET nm == IF Truthy(name) THEN Val(name)
                   ELSE Format("c", WhileTaken("c", get_num_linear_constraints(p),
                                               p.linear_constraints_index))
             p1 == [p EXCEPT !.linear_constraints_index =
                                 DictSetItem(@, nm, len(p.linear_constraints))]
             lin == IF linear = None THEN ByIndex(EmptyDict) ELSE Val(linear)
             sns == ConstraintSenseConvert(sense)
             constraint == LinearConstraint(p1, nm, lin, sns.ret, rhs)
         IN  IF sns.raised # "none" THEN [p |-> p1, raised |-> sns.raised, ret |-> None]
             ELSE IF constraint.raised # "none"
             THEN [p |-> p1, raised |-> constraint.raised, ret |-> None]
             ELSE [p |-> [p1 EXCEPT !.linear_constraints = Append(@, Val(constraint.ret))],
                   raised |-> "none", ret |-> constraint.ret]

quadratic_constraint(p, linear, quadratic, sense, rhs, name) ==
    IF Truthy(name) /\ Val(name) \in DOMAIN p.quadratic_constraints_index
    THEN [p |-> p, raised |-> "QiskitOptimizationError", ret |-> None]
    ELSE LET nm == IF Truthy(name) THEN Val(name)
                   ELSE Format("q", WhileTaken("q", get_num_quadratic_constraints(p),
                                               p.quadratic_constraints_index))
             p1 == [p EXCEPT !.quadratic_constraints_index =
                                 DictSetItem(@, nm, len(p.quadratic_constraints))]
             lin == IF linear = None THEN ByIndex(EmptyDict) ELSE Val(linear)
             quad == IF quadratic = None THEN ByIndex(EmptyDict) ELSE Val(quadratic)
             sns == ConstraintSenseConvert(sense)
             constraint == QuadraticConstraint(p1, nm, lin, quad, sns.ret, rhs)
         IN  IF sns.raised # "none" THEN [p |-> p1, raised |-> sns.raised, ret |-> None]
             ELSE IF constraint.raised # "none"
             THEN [p |-> p1, raised |-> constraint.raised, ret |-> None]
             ELSE [p |-> [p1 EXCEPT !.quadratic_constraints = Append(@, Val(constraint.ret))],
                   raised |-> "none", ret |-> constraint.ret]

\* an objective that keeps the parts of the old one a call omits
SetObjective_carry(p, constant, linear, quadratic, sense) ==
    LET o == QuadraticObjective(p, constant, linear, quadratic, sense)
    IN  IF o.raised # "none" THEN [p |-> p, raised |-> o.raised, ret |-> None]
        ELSE [p |-> [p EXCEPT !.objective =
                        [Val(o.ret) EXCEPT
                            !.linear = IF linear = None THEN p.objective.linear ELSE @,
                            !.quadratic = IF quadratic = None THEN p.objective.quadratic
                                          ELSE @]],
              raised |-> "none", ret |-> None]

\* self._objective = QuadraticObjective(self, constant, linear, quadratic, sense)
SetObjective(p, constant, linear, quadratic, sense) ==
    LET o == QuadraticObjective(p, constant, linear, quadratic, sense)
    IN  IF o.raised # "none" THEN [p |-> p, raised |-> o.raised, ret |-> None]
        ELSE [p |-> [p EXCEPT !.objective = Val(o.ret)], raised |-> "none", ret |-> None]

minimize(p, constant, linear, quadratic) ==
    SetObjective(p, constant, linear, quadratic, "MINIMIZE")

maximize(p, constant, linear, quadratic) ==
    SetObjective(p, constant, linear, quadratic, "MAXIMIZE")

-----------------------------------------------------------------------------
(* SubstituteVariables.  self._subs is a dict name -> (name or CONST, value); *)
(* it is modelled by the sequence of its items [i, j, v] in insertion order.  *)

CONST == "__CONSTANT__"

RECURSIVE SumFn(_)
\* the sum of the values of a dict (fsum is exact, the order is immaterial)
SumFn(f) ==
    IF DOMAIN f = {} THEN 0
    ELSE LET k == CHOOSE x \in DOMAIN f : TRUE
         IN  f[k] + SumFn([x \in (DOMAIN f) \ {k} |-> f[x]])

\* i in self._subs
InSubs(s, i) == \E k \in 1 .. Len(s) : s[k].i = i

\* a replacement that forgets the factor v of i <- j * v
Repl_unscaled(s, i) ==
    IF InSubs(s, i)
    THEN LET e == s[CHOOSE k \in 1 .. Len(s) : s[k].i = i]
         IN  <<e.j, IF e.j = CONST THEN e.v ELSE 1>>
    ELSE <<i, 1>>

\* self._subs[i] if i in self._subs else (i, 1)
Repl(s, i) ==
    IF InSubs(s, i)
    THEN LET e == s[CHOOSE k \in 1 .. Len(s) : s[k].i = i] IN <<e.j, e.v>>
    ELSE <<i, 1>>

\* SubstitutionStatus
Success == "success"

Infeasible == "infeasible"

\* a feasibility test that reads the inequality from the side of rhs
_feasible_swapped(sense, rhs) ==
    IF sense = "EQ" THEN 0 = rhs
    ELSE IF sense = "LE" THEN rhs <= 0
    ELSE IF sense = "GE" THEN rhs >= 0
    ELSE FALSE

\* _feasible(sense, rhs): 0 `sense` rhs
_feasible(sense, rhs) ==
    IF sense = "EQ" THEN 0 = rhs
    ELSE IF sense = "LE" THEN 0 <= rhs
    ELSE IF sense = "GE" THEN 0 >= rhs
    ELSE FALSE

RECURSIVE SubsConstants(_, _, _, _)
\* the loop of _subs_dict over constants.items(), from item k on
SubsConstants(p, items, k, s) ==
    IF k > Len(items) THEN [raised |-> "none", ret |-> s]
    ELSE LET i == items[k][1]
             v == items[k][2]
             var_i == get_variable(p, i)
         IN  IF var_i.raised # "none" THEN [raised |-> var_i.raised, ret |-> s]
             ELSE IF InSubs(s, Val(var_i.ret).name)
             THEN [raised |-> "QiskitOptimizationError", ret |-> s]
             ELSE SubsConstants(p, items, k + 1,
                                Append(s, [i |-> Val(var_i.ret).name, j |-> CONST, v |-> v]))

RECURSIVE SubsVariables(_, _, _, _)
\* the loop of _subs_dict over variables.items(), from item k on
SubsVariables(p, items, k, s) ==
    IF k > Len(items) THEN [raised |-> "none", ret |-> s]
    ELSE LET i == items[k][1]
             j == items[k][2]
             v == items[k][3]
             var_i == get_variable(p, i)
             var_j == get_variable(p, j)
         IN  IF v = 0 THEN [raised |-> "QiskitOptimizationError", ret |-> s]
             ELSE IF var_i.raised # "none" THEN [raised |-> var_i.raised, ret |-> s]
             ELSE IF var_j.raised # "none" THEN [raised |-> var_j.raised, ret |-> s]
             ELSE LET i_2 == Val(var_i.ret).name
                      j_2 == Val(var_j.ret).name
                  IN  IF i_2 = j_2 \/ InSubs(s, i_2) \/ InSubs(s, j_2)
                      THEN [raised |-> "QiskitOptimizationError", ret |-> s]
                      ELSE SubsVariables(p, items, k + 1,
                                         Append(s, [i |-> i_2, j |-> j_2, v |-> v]))

\* a setup that checks each map on its own
_subs_dict_separate(p, cs, vs) ==
    LET c == SubsConstants(p, cs, 1, <<>>)
        v == SubsVariables(p, vs, 1, <<>>)
    IN  IF c.raised # "none" THEN c
        ELSE IF v.raised # "none" THEN v
        ELSE [raised |-> "none", ret |-> c.ret \o v.ret]

\* _subs_dict(constants, variables): the new self._subs
_subs_dict(p, cs, vs) ==
    LET c == SubsConstants(p, cs, 1, <<>>)
    IN  IF c.raised # "none" THEN c ELSE SubsVariables(p, vs, 1, c.ret)

\* a copy loop that puts the variable objects of the source themselves into
\* the destination
CopyVariables_shared(p, d, s, k) ==
    LET kept == SelectSeq(p.variables, LAMBDA var : ~InSubs(s, var.name))
    IN  [p |-> [d EXCEPT !.variables = kept,
                         !.variables_index =
                             [n \in {kept[m].name : m \in 1 .. Len(kept)} |->
                                 (CHOOSE m \in 1 .. Len(kept) : kept[m].name = n) - 1]],
         raised |-> "none", ret |-> None]

RECURSIVE CopyVariables(_, _, _, _)
\* the first loop of _variables: copy the variables that are not replaced
CopyVariables(p, d, s, k) ==
    IF k > Len(p.variables) THEN [p |-> d, raised |-> "none", ret |-> None]
    ELSE LET var == p.variables[k]
         IN  IF InSubs(s, var.name) THEN CopyVariables(p, d, s, k + 1)
             ELSE LET r == _add_variable(d, Some(var.name), var.lowerbound, var.upperbound,
                                         var.vartype)
                  IN  IF r.raised # "none" THEN r ELSE CopyVariables(p, r.p, s, k + 1)

\* lb_i / v, or the infinite bound with the sign of v
ScaledBound(b, v) ==
    IF IsFinite(b) THEN RatDiv(b, v) ELSE IF v > 0 THEN b ELSE RatNeg(b)

\* a tightening that does not swap the bounds of i for a negative v
Tightened_unflipped(var_j, lb_i, ub_i, v) ==
    [var_j EXCEPT !.lowerbound = RatMax(var_j.lowerbound, ScaledBound(lb_i, v)),
                  !.upperbound = RatMin(var_j.upperbound, ScaledBound(ub_i, v))]

\* the body of the second loop of _variables for a substitution i <- j * v:
\* the variable var_j with its bounds tightened
Tightened(var_j, lb_i, ub_i, v) ==
    LET new_lb_i == ScaledBound(lb_i, v)
        new_ub_i == ScaledBound(ub_i, v)
        lb_j == var_j.lowerbound
        ub_j == var_j.upperbound
    IN  IF v > 0
        THEN [var_j EXCEPT !.lowerbound = RatMax(lb_j, new_lb_i),
                           !.upperbound = RatMin(ub_j, new_ub_i)]
        ELSE [var_j EXCEPT !.lowerbound = RatMax(lb_j, new_ub_i),
                           !.upperbound = RatMin(ub_j, new_lb_i)]

RECURSIVE TightenLoop(_, _, _, _)
\* the second loop of _variables, from item k of self._subs on; the bounds are
\* written to the object var_j, whichever programs hold it (src |-> the source
\* after the loop)
TightenLoop(p, d, s, k) ==
    IF k > Len(s) THEN [p |-> d, src |-> p, raised |-> "none", ret |-> Some(Success)]
    ELSE LET i == s[k].i
             j == s[k].j
             v == s[k].v
             lb_i == Val(get_variable(p, StrKey(i)).ret).lowerbound
             ub_i == Val(get_variable(p, StrKey(i)).ret).upperbound
         IN  IF j = CONST
             THEN IF ~(RatLE(lb_i, Int2Rat(v)) /\ RatLE(Int2Rat(v), ub_i))
                  THEN [p |-> d, src |-> p, raised |-> "none", ret |-> Some(Infeasible)]
                  ELSE TightenLoop(p, d, s, k + 1)
             ELSE IF v = 0
             THEN [p |-> d, src |-> p, raised |-> "QiskitOptimizationError", ret |-> None]
             ELSE LET var_j == get_variable(d, StrKey(j))
                  IN  IF var_j.raised # "none"
                      THEN [p |-> d, src |-> p, raised |-> var_j.raised, ret |-> None]
                      ELSE LET new == Tightened(Val(var_j.ret), lb_i, ub_i, v)
                               d1 == SetBounds(d, Val(var_j.ret), new.lowerbound,
                                               new.upperbound)
                               p1 == SetBounds(p, Val(var_j.ret), new.lowerbound,
                                               new.upperbound)
                           IN  TightenLoop(p1, d1, s, k + 1)

\* the third loop of _variables
BoundsStatus(d) ==
    IF \E k \in 1 .. Len(d.variables) :
           RatGT(d.variables[k].lowerbound, d.variables[k].upperbound)
    THEN Infeasible ELSE Success

\* _variables()
_variables(p, d, s) ==
    LET copied == CopyVariables(p, d, s, 1)
        tightened == TightenLoop(p, copied.p, s, 1)
    IN  IF copied.raised # "none"
        THEN [p |-> copied.p, src |-> p, raised |-> copied.raised, ret |-> None]
        ELSE IF tightened.raised # "none" \/ tightened.ret = Some(Infeasible) THEN tightened
        ELSE [p |-> tightened.p, src |-> tightened.src, raised |-> "none",
              ret |-> Some(BoundsStatus(tightened.p))]

\* _linear_expression(lin_expr): [const |-> the sum of the list const,
\* lin |-> new_lin.coefficients]
_linear_expression(p, d, s, lin_expr) ==
    LET w == ToDictNamed(p, lin_expr)
        prod == [i \in DOMAIN w |-> w[i] * Repl(s, i)[2]]
        toConst == {i \in DOMAIN w : Repl(s, i)[1] = CONST}
        toVar == (DOMAIN w) \ toConst
        lin_dict == [k \in {Repl(s, i)[1] : i \in toVar} |->
                        SumFn([i \in {i \in toVar : Repl(s, i)[1] = k} |-> prod[i]])]
        new_lin == LinearExpression(d, ByName(lin_dict))
    IN  [raised |-> new_lin.raised,
         const |-> SumFn([i \in toConst |-> prod[i]]),
         lin |-> new_lin.ret]

\* idx = tuple(x for x, _ in [repl_i, repl_j] if x != self.CONST)
Idx(repl_i, repl_j) == SelectSeq(<<repl_i[1], repl_j[1]>>, LAMBDA x : x # CONST)

\* _quadratic_expression(quad_expr): [const |-> the sum of the list const,
\* lin |-> new_lin.coefficients, quad |-> new_quad.coefficients]
_quadratic_expression(p, d, s, quad_expr) ==
    LET w == QuadToDictNamed(p, quad_expr)
        prod == [ij \in DOMAIN w |-> w[ij] * Repl(s, ij[1])[2] * Repl(s, ij[2])[2]]
        idx == [ij \in DOMAIN w |-> Idx(Repl(s, ij[1]), Repl(s, ij[2]))]
        OfLen(n) == {ij \in DOMAIN w : Len(idx[ij]) = n}
        quad_dict == [k \in {idx[ij] : ij \in OfLen(2)} |->
                         SumFn([ij \in {ij \in OfLen(2) : idx[ij] = k} |-> prod[ij]])]
        lin_dict == [k \in {idx[ij][1] : ij \in OfLen(1)} |->
                        SumFn([ij \in {ij \in OfLen(1) : idx[ij][1] = k} |-> prod[ij]])]
        new_lin == LinearExpression(d, ByName(lin_dict))
        new_quad == QuadraticExpression(d, ByName(quad_dict))
    IN  [raised |-> IF new_lin.raised # "none" THEN new_lin.raised ELSE new_quad.raised,
         const |-> SumFn([ij \in OfLen(0) |-> prod[ij]]),
         lin |-> new_lin.ret,
         quad |-> new_quad.ret]

\* an objective pass that minimizes whatever the sense of the source
_objective_minimized(p, d, s) ==
    LET obj == p.objective
        e1 == _linear_expression(p, d, s, obj.linear)
        e2 == _quadratic_expression(p, d, s, obj.quadratic)
        constant == obj.constant + e1.const + e2.const
        linear == DokAdd(e1.lin, e2.lin)
        set == minimize(d, constant, Some(AsDok(linear)), Some(AsDok(e2.quad)))
    IN  IF e1.raised # "none" THEN [p |-> d, raised |-> e1.raised, ret |-> None]
        ELSE IF e2.raised # "none" THEN [p |-> d, raised |-> e2.raised, ret |-> None]
        ELSE IF set.raised # "none" THEN set
        ELSE [p |-> set.p, raised |-> "none", ret |-> Some(Success)]

\* _objective()
_objective(p, d, s) ==
    LET obj == p.objective
        e1 == _linear_expression(p, d, s, obj.linear)
        e2 == _quadratic_expression(p, d, s, obj.quadratic)
        constant == obj.constant + e1.const + e2.const
        linear == DokAdd(e1.lin, e2.lin)
        set == IF obj.sense = "MINIMIZE"
               THEN minimize(d, constant, Some(AsDok(linear)), Some(AsDok(e2.quad)))
               ELSE maximize(d, constant, Some(AsDok(linear)), Some(AsDok(e2.quad)))
    IN  IF e1.raised # "none" THEN [p |-> d, raised |-> e1.raised, ret |-> None]
        ELSE IF e2.raised # "none" THEN [p |-> d, raised |-> e2.raised, ret |-> None]
        ELSE IF set.raised # "none" THEN set
        ELSE [p |-> set.p, raised |-> "none", ret |-> Some(Success)]

RECURSIVE _linear_constraints_from(_, _, _, _)
\* the loop of _linear_constraints, from constraint k of the source on
_linear_constraints_from(p, d, s, k) ==
    IF k > Len(p.linear_constraints) THEN [p |-> d, raised |-> "none", ret |-> Some(Success)]
    ELSE LET lin_cst == p.linear_constraints[k]
             e == _linear_expression(p, d, s, lin_cst.linear)
             rhs == lin_cst.rhs - e.const
             added == linear_constraint(d, Some(AsDok(e.lin)), Sense(lin_cst.sense), rhs,
                                        Some(lin_cst.name))
         IN  IF e.raised # "none" THEN [p |-> d, raised |-> e.raised, ret |-> None]
             ELSE IF nnz(e.lin) > 0
             THEN IF added.raised # "none" THEN added
                  ELSE _linear_constraints_from(p, added.p, s, k + 1)
             ELSE IF ~_feasible(lin_cst.sense, rhs)
             THEN [p |-> d, raised |-> "none", ret |-> Some(Infeasible)]
             ELSE _linear_constraints_from(p, d, s, k + 1)

\* _linear_constraints()
_linear_constraints(p, d, s) == _linear_constraints_from(p, d, s, 1)

\* one '_' in front of a name that is taken, without looking again
Unused_once(name, lin_names) == IF name \in lin_names THEN "_" \o name ELSE name

RECURSIVE Unused(_, _)
\* while name in lin_names: name = '_' + name
Unused(name, lin_names) ==
    IF name \in lin_names THEN Unused("_" \o name, lin_names) ELSE name

RECURSIVE _quadratic_constraints_from(_, _, _, _)
\* the loop of _quadratic_constraints, from constraint k of the source on
_quadratic_constraints_from(p, d, s, k) ==
    IF k > Len(p.quadratic_constraints)
    THEN [p |-> d, raised |-> "none", ret |-> Some(Success)]
    ELSE LET quad_cst == p.quadratic_constraints[k]
             e1 == _linear_expression(p, d, s, quad_cst.linear)
             e2 == _quadratic_expression(p, d, s, quad_cst.quadratic)
             rhs == quad_cst.rhs - (e1.const + e2.const)
             linear == DokAdd(e1.lin, e2.lin)
             asQuadratic == quadratic_constraint(d, Some(AsDok(linear)), Some(AsDok(e2.quad)),
                                                 Sense(quad_cst.sense), rhs,
                                                 Some(quad_cst.name))
             lin_names == {d.linear_constraints[n].name : n \in 1 .. Len(d.linear_constraints)}
             asLinear == linear_constraint(d, Some(AsDok(linear)), Sense(quad_cst.sense), rhs,
                                           Some(Unused(quad_cst.name, lin_names)))
         IN  IF e1.raised # "none" THEN [p |-> d, raised |-> e1.raised, ret |-> None]
             ELSE IF e2.raised # "none" THEN [p |-> d, raised |-> e2.raised, ret |-> None]
             ELSE IF nnz(e2.quad) > 0
             THEN IF asQuadratic.raised # "none" THEN asQuadratic
                  ELSE _quadratic_constraints_from(p, asQuadratic.p, s, k + 1)
             ELSE IF nnz(linear) > 0
             THEN IF asLinear.raised # "none" THEN asLinear
                  ELSE _quadratic_constraints_from(p, asLinear.p, s, k + 1)
             ELSE IF ~_feasible(quad_cst.sense, rhs)
             THEN [p |-> d, raised |-> "none", ret |-> Some(Infeasible)]
             ELSE _quadratic_constraints_from(p, d, s, k + 1)

\* _quadratic_constraints()
_quadratic_constraints(p, d, s) == _quadratic_constraints_from(p, d, s, 1)

\* any(r == SubstitutionStatus.infeasible for r in results)
Status(rs) ==
    IF \E k \in 1 .. Len(rs) : rs[k] = Infeasible THEN Infeasible ELSE Success

-----------------------------------------------------------------------------
(* Building a program: the calls a client makes on one QuadraticProgram.     *)

\* the number of names registered in the three collections of qp together
MaxSize == 3

\* explicit names and None (omitted)
VarNameArgs == {None, Some("a"), Some("x1")}

LinNameArgs == {None, Some("a")}

QuadNameArgs == {None, Some("a")}

\* (lowerbound, upperbound): the defaults, and a finite pair
DefaultBounds == <<Int2Rat(0), PosInf>>

FiniteBounds == <<Int2Rat(-1), Int2Rat(2)>>

\* coefficient arguments over the first variable of the program
LinearArg == Some(ByIndex(0 :> 3))

QuadraticArg == Some(ByIndex(<<0, 0>> :> 1))

\* (linear, quadratic, sense, rhs) of a constraint call; "!" is no sense
ConstraintArgs(p) ==
    {<<None, None, Str("<="), 0>>, <<None, None, Str("!"), 0>>}
    \cup (IF get_num_vars(p) > 0
          THEN {<<LinearArg, QuadraticArg, Str("eq"), 1>>}
          ELSE {})

\* (constant, linear, quadratic) of a minimize/maximize call
ObjectiveArgs(p) ==
    {<<0, None, None>>}
    \cup (IF get_num_vars(p) > 0 THEN {<<2, LinearArg, QuadraticArg>>} ELSE {})

Size(p) ==
    Cardinality(DOMAIN p.variables_index)
    + Cardinality(DOMAIN p.linear_constraints_index)
    + Cardinality(DOMAIN p.quadratic_constraints_index)

RetName(r) == IF r.ret = None THEN None ELSE Some(Val(r.ret).name)

Called(op, name, r) == [op |-> op, name |-> name, raised |-> r.raised, ret |-> RetName(r)]

\* no call of substitute_variables is under way
NoSubstitution ==
    /\ src = None
    /\ constants = <<>>
    /\ variables = <<>>
    /\ subs = <<>>
    /\ dst = None
    /\ results = <<>>
    /\ pc = "idle"
    /\ outcome = None

\* no call of IsingToQuadraticProgram.convert is under way
NoIsing ==
    /\ ising = None
    /\ isingFrame = None
    /\ isingOut = None

\* no call of QuadraticProgramToQubo is under way
NoQubo ==
    /\ qubo = None
    /\ quboFrame = None
    /\ quboCalls = <<>>

\* no operator node has been made
NoOperators ==
    /\ prims = <<>>
    /\ nodes = <<>>
    /\ opCall = None

\* no call of AQGD.optimize is under way
NoAqgd ==
    /\ aqgd = None
    /\ aqgdFrame = None
    /\ aqgdLog = <<>>

\* a new, empty program
NewProgram ==
    /\ qp = QuadraticProgram("")
    /\ call = [op |-> "QuadraticProgram", name |-> None, raised |-> "none", ret |-> None]
    /\ lastObjective = None

Init == NewProgram /\ NoSubstitution /\ NoIsing /\ NoQubo /\ NoOperators /\ NoAqgd

ContinuousVar ==
    \E name \in VarNameArgs :
        LET r == continuous_var(qp, name, DefaultBounds[1], DefaultBounds[2]) IN
        /\ Size(r.p) <= MaxSize
        /\ qp' = r.p
        /\ call' = Called("continuous_var", name, r)
        /\ UNCHANGED <<lastObjective, subVars, convVars>>

BinaryVar ==
    \E name \in VarNameArgs :
        LET r == binary_var(qp, name) IN
        /\ Size(r.p) <= MaxSize
        /\ qp' = r.p
        /\ call' = Called("binary_var", name, r)
        /\ UNCHANGED <<lastObjective, subVars, convVars>>

IntegerVar ==
    \E name \in VarNameArgs :
        LET r == integer_var(qp, name, FiniteBounds[1], FiniteBounds[2]) IN
        /\ Size(r.p) <= MaxSize
        /\ qp' = r.p
        /\ call' = Called("integer_var", name, r)
        /\ UNCHANGED <<lastObjective, subVars, convVars>>

LinearConstraintCall ==
    \E name \in LinNameArgs, a \in ConstraintArgs(qp) :
        LET r == linear_constraint(qp, a[1], a[3], a[4], name) IN
        /\ Size(r.p) <= MaxSize
        /\ qp' = r.p
        /\ call' = Called("linear_constraint", name, r)
        /\ UNCHANGED <<lastObjective, subVars, convVars>>

QuadraticConstraintCall ==
    \E name \in QuadNameArgs, a \in ConstraintArgs(qp) :
        LET r == quadratic_constraint(qp, a[1], a[2], a[3], a[4], name) IN
        /\ Size(r.p) <= MaxSize
        /\ qp' = r.p
        /\ call' = Called("quadratic_constraint", name, r)
        /\ UNCHANGED <<lastObjective, subVars, convVars>>

Minimize ==
    \E a \in ObjectiveArgs(qp) :
        LET r == minimize(qp, a[1], a[2], a[3]) IN
        /\ qp' = r.p
        /\ call' = Called("minimize", None, r)
        /\ lastObjective' = Some([sense |-> "MINIMIZE", constant |-> a[1],
                                  linear |-> a[2], quadratic |-> a[3]])
        /\ UNCHANGED <<subVars, convVars>>

Maximize ==
    \E a \in ObjectiveArgs(qp) :
        LET r == maximize(qp, a[1], a[2], a[3]) IN
        /\ qp' = r.p
        /\ call' = Called("maximize", None, r)
        /\ lastObjective' = Some([sense |-> "MAXIMIZE", constant |-> a[1],
                                  linear |-> a[2], quadratic |-> a[3]])
        /\ UNCHANGED <<subVars, convVars>>

Clear ==
    /\ qp' = clear(qp).p
    /\ call' = [op |-> "clear", name |-> None, raised |-> "none", ret |-> None]
    /\ lastObjective' = None
    /\ UNCHANGED <<subVars, convVars>>

Next ==
    \/ ContinuousVar
    \/ BinaryVar
    \/ IntegerVar
    \/ LinearConstraintCall
    \/ QuadraticConstraintCall
    \/ Minimize
    \/ Maximize
    \/ Clear

Spec == Init /\ [][Next]_vars

-----------------------------------------------------------------------------
(* Substituting: one call of substitute_variables(src, constants, variables) *)
(* on a source program built with the calls above.                           *)

\* the number of items of constants and variables together
MaxSubs == 2

\* (lowerbound, upperbound) of the continuous variable x and of the integer
\* variable y of the source; the variable z is binary
BoundsOfX == {<<Int2Rat(0), Int2Rat(5)>>, <<Int2Rat(4), Int2Rat(6)>>}

BoundsOfY == {<<NegInf, PosInf>>, <<Int2Rat(-4), PosInf>>}

WithVariables(bx, by) ==
    LET p1 == continuous_var(QuadraticProgram("src"), Some("x"), bx[1], bx[2]).p
        p2 == integer_var(p1, Some("y"), by[1], by[2]).p
    IN  binary_var(p2, Some("z")).p

\* minimize 1 + 2x + y - z + x^2 + 2xy - yz + 3zx
\*   c0: 2x + y <= 3,   c1: x - z >= 1,
\*   q0: -y + xy <= -1, c0 (quadratic): z + x^2 == 2
FirstProgram(bx, by) ==
    LET p0 == WithVariables(bx, by)
        p1 == minimize(p0, 1, Some(ByName("x" :> 2 @@ "y" :> 1 @@ "z" :> -1)),
                       Some(ByName(<<"x", "x">> :> 1 @@ <<"x", "y">> :> 2
                                   @@ <<"y", "z">> :> -1 @@ <<"z", "x">> :> 3))).p
        p2 == linear_constraint(p1, Some(ByName("x" :> 2 @@ "y" :> 1)), Str("<="), 3, None).p
        p3 == linear_constraint(p2, Some(ByName("x" :> 1 @@ "z" :> -1)), Str(">="), 1, None).p
        p4 == quadratic_constraint(p3, Some(ByName("y" :> -1)),
                                   Some(ByName(<<"x", "y">> :> 1)), Str("<="), -1, None).p
    IN  quadratic_constraint(p4, Some(ByName("z" :> 1)), Some(ByName(<<"x", "x">> :> 1)),
                             Str("=="), 2, Some("c0")).p

\* maximize 2y^2 - xz
\*   c0: y - 2z == 0,   q0: xy + 2y^2 >= 4
SecondProgram(bx, by) ==
    LET p0 == WithVariables(bx, by)
        p1 == maximize(p0, 0, None,
                       Some(ByName(<<"y", "y">> :> 2 @@ <<"x", "z">> :> -1))).p
        p2 == linear_constraint(p1, Some(ByName("y" :> 1 @@ "z" :> -2)), Str("=="), 0, None).p
    IN  quadratic_constraint(p2, None, Some(ByName(<<"x", "y">> :> 1 @@ <<"y", "y">> :> 2)),
                             Str(">="), 4, None).p

\* the default objective
\*   q0: x + z <= 5,   _q0: y >= -9,   t: 0 <= 1 (no coefficients),
\*   q0 (quadratic): z + xy <= 3,   lin (quadratic, no quadratic part): y <= 7
ThirdProgram(bx, by) ==
    LET p0 == WithVariables(bx, by)
        p1 == linear_constraint(p0, Some(ByName("x" :> 1 @@ "z" :> 1)), Str("<="), 5,
                                Some("q0")).p
        p2 == linear_constraint(p1, Some(ByName("y" :> 1)), Str(">="), -9, Some("_q0")).p
        p3 == linear_constraint(p2, None, Str("<="), 1, Some("t")).p
        p4 == quadratic_constraint(p3, Some(ByName("z" :> 1)), Some(ByName(<<"x", "y">> :> 1)),
                                   Str("<="), 3, Some("q0")).p
    IN  quadratic_constraint(p4, Some(ByName("y" :> 1)), None, Str("<="), 7, Some("lin")).p

SrcPrograms ==
    {FirstProgram(bx, by) : bx \in BoundsOfX, by \in BoundsOfY}
    \cup {SecondProgram(bx, by) : bx \in BoundsOfX, by \in BoundsOfY}
    \cup {ThirdProgram(bx, by) : bx \in BoundsOfX, by \in BoundsOfY}

\* the items (i, v) of constants and (i, j, v) of variables
ConstantItems == {<<i, v>> : i \in {StrKey("x"), StrKey("y"), StrKey("z"), IntKey(0)},
                             v \in {1, 5}}

VariableItems == {<<i, j, v>> : i \in {StrKey("x"), StrKey("y"), StrKey("z"), IntKey(2)},
                                j \in {StrKey("x"), StrKey("y"), StrKey("z")},
                                v \in {-2, 0, 2}}

\* the item lists of the dicts of at most n items over S: the keys of a dict differ
Dicts(S, n) ==
    UNION {{d \in [1 .. m -> S] : \A a, b \in 1 .. m : a # b => d[a][1] # d[b][1]} :
           m \in 0 .. n}

InitSub ==
    /\ NewProgram
    /\ NoIsing
    /\ NoQubo
    /\ NoOperators
    /\ NoAqgd
    /\ src \in SrcPrograms
    /\ constants \in Dicts(ConstantItems, MaxSubs)
    /\ variables \in Dicts(VariableItems, MaxSubs - Len(constants))
    /\ subs = <<>>
    /\ dst = None
    /\ results = <<>>
    /\ pc = "called"
    /\ outcome = None

\* at: the step of the call that raised
Raised(exception) == [raised |-> exception, status |-> None, at |-> pc]

Returned(status) == [raised |-> "none", status |-> Some(status), at |-> pc]

\* what a pass leaves behind: its status appended to results, or its exception
AfterPass(r, next) ==
    /\ dst' = r.p
    /\ IF r.raised # "none"
       THEN /\ pc' = "raised"
            /\ outcome' = Raised(r.raised)
            /\ UNCHANGED results
       ELSE /\ pc' = next
            /\ results' = Append(results, Val(r.ret))
            /\ UNCHANGED outcome
    /\ UNCHANGED <<qpVars, convVars, constants, variables, subs>>

\* self._src = src; self._dst = QuadraticProgram(src.name); self._subs_dict(..)
CallSubsDict ==
    /\ pc = "called"
    /\ LET r == _subs_dict(src, constants, variables) IN
       /\ dst' = NewObject(QuadraticProgram(src.name), src)
       /\ IF r.raised # "none"
          THEN /\ pc' = "raised"
               /\ outcome' = Raised(r.raised)
               /\ UNCHANGED subs
          ELSE /\ pc' = "variables"
               /\ subs' = r.ret
               /\ UNCHANGED outcome
    /\ UNCHANGED <<qpVars, convVars, src, constants, variables, results>>

PassVariables ==
    /\ pc = "variables"
    /\ LET r == _variables(src, dst, subs) IN
       /\ AfterPass(r, "objective")
       /\ src' = r.src

PassObjective ==
    /\ pc = "objective"
    /\ AfterPass(_objective(src, dst, subs), "linear_constraints")
    /\ UNCHANGED src

PassLinearConstraints ==
    /\ pc = "linear_constraints"
    /\ AfterPass(_linear_constraints(src, dst, subs), "quadratic_constraints")
    /\ UNCHANGED src

PassQuadraticConstraints ==
    /\ pc = "quadratic_constraints"
    /\ AfterPass(_quadratic_constraints(src, dst, subs), "return")
    /\ UNCHANGED src

\* return self._dst, ret
Return ==
    /\ pc = "return"
    /\ pc' = "returned"
    /\ outcome' = Returned(Status(results))
    /\ UNCHANGED <<qpVars, convVars, src, constants, variables, subs, dst, results>>

NextSub ==
    \/ CallSubsDict
    \/ PassVariables
    \/ PassObjective
    \/ PassLinearConstraints
    \/ PassQuadraticConstraints
    \/ Return

SpecSub == InitSub /\ [][NextSub]_vars

-----------------------------------------------------------------------------
(* Properties of the program under construction (specification Spec).        *)

VarOps == {"continuous_var", "binary_var", "integer_var"}

\* the int arguments tried on the getters
IntArgs == (-(MaxSize + 2)) .. (MaxSize + 2)

\* the name arguments tried on the getters
StrArgs == {"a", "b", "x0", "x1", "x2", "c0", "c1", "q0", "q1"}

\* the smallest k in ks for which '<prefix>{k}' is no key of index
FirstUnused(prefix, ks, index) ==
    CHOOSE k \in ks :
        /\ Format(prefix, k) \notin DOMAIN index
        /\ \A j \in ks : j < k => Format(prefix, j) \in DOMAIN index

\* C1: whatever variables were added (explicit or omitted names, rejected
\* duplicates included), get_variable by name and get_variable by position
\* return the same variable, and the name->index map has exactly one entry
\* per variable.
C1_NameAndPositionAgree ==
    /\ \A i \in 0 .. (len(qp.variables) - 1) :
          LET v == qp.variables[i + 1]
              byName == get_variable(qp, StrKey(v.name))
              byPos == get_variable(qp, IntKey(i))
          IN  /\ byName.raised = "none" /\ byPos.raised = "none"
              /\ byName.ret = Some(v) /\ byPos.ret = Some(v)
              /\ qp.variables_index[v.name] = i
    /\ DOMAIN qp.variables_index = {qp.variables[i].name : i \in 1 .. len(qp.variables)}
    /\ Cardinality(DOMAIN qp.variables_index) = len(qp.variables)

C1_Witness ==
    /\ call.op \in VarOps /\ call.raised = "QiskitOptimizationError"
    /\ len(qp.variables) = 2
    /\ "a" \in DOMAIN qp.variables_index /\ "x1" \in DOMAIN qp.variables_index
    /\ qp.variables_index["x1"] = 0

\* C2: a call that adds a variable, a linear constraint or a quadratic
\* constraint under an explicit name already registered in that collection
\* raises and leaves the whole program unchanged; a name registered only in
\* another collection does not make the call collide.
C2_Step ==
    LET explicit == Truthy(call'.name)
        nm == Val(call'.name)
    IN  /\ (call'.op \in VarOps /\ explicit) =>
              IF nm \in DOMAIN qp.variables_index
              THEN call'.raised = "QiskitOptimizationError" /\ qp' = qp
              ELSE /\ call'.raised = "none"
                   /\ qp'.variables = Append(qp.variables, qp'.variables[len(qp'.variables)])
                   /\ qp'.variables[len(qp'.variables)].name = nm
        /\ (call'.op = "linear_constraint" /\ explicit) =>
              IF nm \in DOMAIN qp.linear_constraints_index
              THEN call'.raised = "QiskitOptimizationError" /\ qp' = qp
              ELSE nm \in DOMAIN qp'.linear_constraints_index
        /\ (call'.op = "quadratic_constraint" /\ explicit) =>
              IF nm \in DOMAIN qp.quadratic_constraints_index
              THEN call'.raised = "QiskitOptimizationError" /\ qp' = qp
              ELSE nm \in DOMAIN qp'.quadratic_constraints_index

C2_DuplicateNameRejected == [][C2_Step]_vars

C2_Witness ==
    /\ call.op = "linear_constraint" /\ call.name = Some("a")
    /\ call.raised = "QiskitOptimizationError"
    /\ "a" \in DOMAIN qp.variables_index
    /\ len(qp.linear_constraints) = 2
    /\ qp.linear_constraints[1].name = "a"

Start(fromZero, n) == IF fromZero THEN 0 ELSE n

\* the name a call with an omitted name registers, given where the search
\* for k starts
C3_StepFrom(fromZero) ==
    LET omitted == ~Truthy(call'.name) IN
    /\ (call'.op \in VarOps /\ omitted) =>
          LET k == FirstUnused("x", Start(fromZero, len(qp.variables)) .. (MaxSize + 1),
                               qp.variables_index)
          IN  /\ call'.ret = Some(Format("x", k))
              /\ DOMAIN qp'.variables_index =
                     (DOMAIN qp.variables_index) \cup {Format("x", k)}
    /\ (call'.op = "linear_constraint" /\ omitted) =>
          LET k == FirstUnused("c", Start(fromZero, len(qp.linear_constraints)) .. (MaxSize + 1),
                               qp.linear_constraints_index)
          IN  DOMAIN qp'.linear_constraints_index =
                  (DOMAIN qp.linear_constraints_index) \cup {Format("c", k)}
    /\ (call'.op = "quadratic_constraint" /\ omitted) =>
          LET k == FirstUnused("q", Start(fromZero, len(qp.quadratic_constraints)) .. (MaxSize + 1),
                               qp.quadratic_constraints_index)
          IN  DOMAIN qp'.quadratic_constraints_index =
                  (DOMAIN qp.quadratic_constraints_index) \cup {Format("q", k)}

C3_StepFromZero == C3_StepFrom(TRUE)

C3_StepFromCount == C3_StepFrom(FALSE)

\* C3 as stated: with the name omitted, the new element is named x{k} (c{k},
\* q{k}) for the smallest non-negative k whose name is not taken.
C3_SmallestUnusedFromZero == [][C3_StepFromZero]_vars

\* C3 amended: with the name omitted, the new element is named x{k} (c{k},
\* q{k}) for the smallest k >= n whose name is not registered, n being the
\* number of elements the collection holds before the call.
C3_SmallestUnusedFromCount == [][C3_StepFromCount]_vars

C3_Witness ==
    /\ call.op \in VarOps /\ call.name = None /\ call.ret = Some("x2")
    /\ "x0" \notin DOMAIN qp.variables_index
    /\ "x1" \in DOMAIN qp.variables_index
    /\ len(qp.variables) = 2

\* the three getters on qp
Getters(i) ==
    {<<get_variable(qp, i), qp.variables, qp.variables_index>>,
     <<get_linear_constraint(qp, i), qp.linear_constraints, qp.linear_constraints_index>>,
     <<get_quadratic_constraint(qp, i), qp.quadratic_constraints,
       qp.quadratic_constraints_index>>}

\* C4 as stated: the getters fail for every unknown name and for every int
\* outside 0..n-1, negative ints included.
C4_FailsOutsideZeroToN ==
    /\ \A i \in IntArgs : \A g \in Getters(IntKey(i)) :
          (i < 0 \/ i >= len(g[2])) => g[1].raised # "none"
    /\ \A s \in StrArgs : \A g \in Getters(StrKey(s)) :
          s \notin DOMAIN g[3] => g[1].raised # "none"

\* C4 amended: the getters fail for every name that is not registered and for
\* every int outside -n..n-1; for an int i in -n..-1 they return the element
\* at position n+i.
C4_FailsOutsidePythonRange ==
    /\ \A i \in IntArgs : \A g \in Getters(IntKey(i)) :
          LET n == len(g[2]) IN
          /\ (i < -n \/ i >= n) => g[1].raised = "IndexError" /\ g[1].ret = None
          /\ (0 <= i /\ i < n) => g[1].raised = "none" /\ g[1].ret = Some(g[2][i + 1])
          /\ (-n <= i /\ i < 0) => g[1].raised = "none" /\ g[1].ret = Some(g[2][n + i + 1])
    /\ \A s \in StrArgs : \A g \in Getters(StrKey(s)) :
          s \notin DOMAIN g[3] => g[1].raised = "KeyError" /\ g[1].ret = None

C4_Witness ==
    /\ len(qp.variables) = 2
    /\ len(qp.linear_constraints) = 1
    /\ get_variable(qp, IntKey(-1)).ret = Some(qp.variables[2])
    /\ get_variable(qp, IntKey(-3)).raised = "IndexError"
    /\ get_variable(qp, IntKey(2)).raised = "IndexError"
    /\ get_linear_constraint(qp, StrKey("b")).raised = "KeyError"

\* the coefficients an index-keyed argument stands for
Given(arg) == IF arg = None THEN EmptyDict ELSE Val(arg).coef

C5_ObjectiveIsLastCall ==
    IF lastObjective = None THEN qp.objective = DefaultObjective
    ELSE LET a == Val(lastObjective) IN
         /\ qp.objective.constant = a.constant
         /\ qp.objective.sense = a.sense
         /\ qp.objective.linear = Given(a.linear)
         /\ qp.objective.quadratic = Given(a.quadratic)

C5_Frame ==
    call'.op \in {"minimize", "maximize"} =>
        /\ call'.raised = "none"
        /\ qp'.variables = qp.variables
        /\ qp'.variables_index = qp.variables_index
        /\ qp'.linear_constraints = qp.linear_constraints
        /\ qp'.linear_constraints_index = qp.linear_constraints_index
        /\ qp'.quadratic_constraints = qp.quadratic_constraints
        /\ qp'.quadratic_constraints_index = qp.quadratic_constraints_index

\* C5: the objective is exactly what the last minimize/maximize call gave
\* (omitted parts empty, nothing carried over), the default objective before
\* the first such call, and these calls change neither the variables nor the
\* constraints.
C5_ObjectiveReplaced == []C5_ObjectiveIsLastCall /\ [][C5_Frame]_vars

C5_Witness ==
    /\ call.op = "maximize"
    /\ lastObjective = Some([sense |-> "MAXIMIZE", constant |-> 0,
                             linear |-> None, quadratic |-> None])
    /\ len(qp.variables) = 1
    /\ len(qp.linear_constraints) = 1
    /\ len(qp.quadratic_constraints) = 1
    /\ nnz(qp.linear_constraints[1].linear) = 1

-----------------------------------------------------------------------------
(* Substitution: what the returned program is to the source program.         *)

\* the values an assignment gives a variable: three points identify a
\* polynomial of degree two in each variable
Grid == {-1, 0, 2}

Names(p) == {p.variables[k].name : k \in 1 .. Len(p.variables)}

Assignments(p) == [Names(p) -> Grid]

Substitution(n) == subs[CHOOSE k \in 1 .. Len(subs) : subs[k].i = n]

\* the assignment of the source variables that extends the assignment y of the
\* remaining variables: x_i = v for i <- v and x_i = v * y_j for i <- (j, v)
Extended(y) ==
    [n \in Names(src) |->
        IF \E k \in 1 .. Len(subs) : subs[k].i = n
        THEN IF Substitution(n).j = CONST THEN Substitution(n).v
             ELSE Substitution(n).v * y[Substitution(n).j]
        ELSE y[n]]

VarName(p, i) == p.variables[i + 1].name

EvalLinear(p, m, a) == SumFn([i \in DOMAIN m |-> m[i] * a[VarName(p, i)]])

EvalQuadratic(p, m, a) ==
    SumFn([ij \in DOMAIN m |-> m[ij] * a[VarName(p, ij[1])] * a[VarName(p, ij[2])]])

ObjectiveValue(p, a) ==
    p.objective.constant + EvalLinear(p, p.objective.linear, a)
    + EvalQuadratic(p, p.objective.quadratic, a)

IsReturned == pc = "returned"

StatusIs(status) == pc = "returned" /\ outcome.status = Some(status)

\* C6: the objective of the returned program has the sense of the source
\* objective and, at every assignment y of the remaining variables, the value
\* of the source objective at the assignment that extends y by the
\* substitutions; its quadratic part is over the remaining variables only.
C6_ObjectiveSubstituted ==
    IsReturned =>
        /\ dst.objective.sense = src.objective.sense
        /\ \A y \in Assignments(dst) :
               ObjectiveValue(dst, y) = ObjectiveValue(src, Extended(y))

\* x <- 1 and z <- (y, -2) in the first program: terms go from the quadratic
\* part to the linear part and to the constant
C6_Witness ==
    /\ IsReturned
    /\ src.objective.sense = "MINIMIZE"
    /\ Len(subs) = 2
    /\ subs[1] = [i |-> "x", j |-> CONST, v |-> 1]
    /\ subs[2] = [i |-> "z", j |-> "y", v |-> -2]
    /\ dst.objective.constant = 4
    /\ dst.objective.linear = (0 :> -1)
    /\ dst.objective.quadratic = (<<0, 0>> :> 2)

\* the constraints of a program: <<"linear", k>> is its k-th linear constraint,
\* <<"quadratic", k>> its k-th quadratic constraint
Constraints(p) ==
    {<<"linear", k>> : k \in 1 .. Len(p.linear_constraints)}
    \cup {<<"quadratic", k>> : k \in 1 .. Len(p.quadratic_constraints)}

NameOf(p, c) ==
    IF c[1] = "linear" THEN p.linear_constraints[c[2]].name
    ELSE p.quadratic_constraints[c[2]].name

SenseOf(p, c) ==
    IF c[1] = "linear" THEN p.linear_constraints[c[2]].sense
    ELSE p.quadratic_constraints[c[2]].sense

RhsOf(p, c) ==
    IF c[1] = "linear" THEN p.linear_constraints[c[2]].rhs
    ELSE p.quadratic_constraints[c[2]].rhs

\* the left-hand side of constraint c of p at the assignment a
Lhs(p, c, a) ==
    IF c[1] = "linear" THEN EvalLinear(p, p.linear_constraints[c[2]].linear, a)
    ELSE EvalLinear(p, p.quadratic_constraints[c[2]].linear, a)
         + EvalQuadratic(p, p.quadratic_constraints[c[2]].quadratic, a)

\* lhs `sense` rhs
Holds(sense, lhs, rhs) ==
    CASE sense = "EQ" -> lhs = rhs
      [] sense = "LE" -> lhs <= rhs
      [] sense = "GE" -> lhs >= rhs

\* a satisfies every linear and quadratic constraint of p
Satisfies(p, a) ==
    \A c \in Constraints(p) : Holds(SenseOf(p, c), Lhs(p, c, a), RhsOf(p, c))

\* the constant contribution of the substituted variables to the source
\* constraint c: its left-hand side where every remaining variable is 0
ConstantPart(c) == Lhs(src, c, Extended([n \in Names(dst) |-> 0]))

\* the variable part of the source constraint c vanishes under the substitution
Vanishes(c) ==
    \A y \in Assignments(dst) : Lhs(src, c, Extended(y)) = ConstantPart(c)

\* some constant substitution i <- v has v outside [lb_i, ub_i]
ConstantOutOfBounds ==
    \E k \in 1 .. Len(subs) :
        /\ subs[k].j = CONST
        /\ LET var_i == src.variables[src.variables_index[subs[k].i] + 1]
           IN  ~(RatLE(var_i.lowerbound, Int2Rat(subs[k].v))
                 /\ RatLE(Int2Rat(subs[k].v), var_i.upperbound))

\* some variable of the returned program has lower bound > upper bound
CrossedBounds ==
    \E k \in 1 .. Len(dst.variables) :
        RatGT(dst.variables[k].lowerbound, dst.variables[k].upperbound)

\* some constraint whose variable part vanishes makes 0 `sense` rhs' false
VanishedInfeasible ==
    \E c \in Constraints(src) :
        Vanishes(c) /\ ~Holds(SenseOf(src, c), 0, RhsOf(src, c) - ConstantPart(c))

\* C7: the status is Infeasible exactly when a constant substitution is out of
\* bounds, or a variable of the returned program has crossed bounds, or a
\* constraint whose variable part vanishes makes 0 `sense` rhs' false.
C7_InfeasibleIff ==
    IsReturned =>
        (outcome.status = Some(Infeasible)
            <=> (ConstantOutOfBounds \/ CrossedBounds \/ VanishedInfeasible))

\* the same name, type and bounds
SameVariable(v, w) ==
    /\ v.name = w.name
    /\ v.vartype = w.vartype
    /\ v.lowerbound = w.lowerbound
    /\ v.upperbound = w.upperbound

SrcVar(n) == src.variables[src.variables_index[n] + 1]

DstVar(n) == dst.variables[dst.variables_index[n] + 1]

\* the variable substitutions that name j as the replacement
Naming(j) == {k \in 1 .. Len(subs) : subs[k].j = j}

\* the lower bounds on j: its own, and the finite bounds of each i <- (j, v)
\* divided by v (the lower bound of i when v > 0, the upper bound when v < 0)
LowerBoundsOn(j) ==
    {SrcVar(j).lowerbound}
    \cup {RatDiv(SrcVar(subs[k].i).lowerbound, subs[k].v) :
            k \in {k \in Naming(j) : subs[k].v > 0 /\ IsFinite(SrcVar(subs[k].i).lowerbound)}}
    \cup {RatDiv(SrcVar(subs[k].i).upperbound, subs[k].v) :
            k \in {k \in Naming(j) : subs[k].v < 0 /\ IsFinite(SrcVar(subs[k].i).upperbound)}}

UpperBoundsOn(j) ==
    {SrcVar(j).upperbound}
    \cup {RatDiv(SrcVar(subs[k].i).upperbound, subs[k].v) :
            k \in {k \in Naming(j) : subs[k].v > 0 /\ IsFinite(SrcVar(subs[k].i).upperbound)}}
    \cup {RatDiv(SrcVar(subs[k].i).lowerbound, subs[k].v) :
            k \in {k \in Naming(j) : subs[k].v < 0 /\ IsFinite(SrcVar(subs[k].i).lowerbound)}}

\* the values y of j that are tried against the bounds
Values == {Rat(n, 2) : n \in -9 .. 9}

\* the bounds of every replacement variable j are the fold of max and min over
\* the substitutions that name it, every value within them is within the
\* bounds of j and, times v, within the bounds of i; the variables that no
\* substitution touches are as in the source
BoundsTightened ==
    /\ \A j \in Names(dst) :
           /\ DstVar(j).lowerbound \in LowerBoundsOn(j)
           /\ \A b \in LowerBoundsOn(j) : RatLE(b, DstVar(j).lowerbound)
           /\ DstVar(j).upperbound \in UpperBoundsOn(j)
           /\ \A b \in UpperBoundsOn(j) : RatLE(DstVar(j).upperbound, b)
           /\ \A y \in Values :
                  RatLE(DstVar(j).lowerbound, y) /\ RatLE(y, DstVar(j).upperbound) =>
                      /\ RatLE(SrcVar(j).lowerbound, y) /\ RatLE(y, SrcVar(j).upperbound)
                      /\ \A k \in Naming(j) :
                             /\ RatLE(SrcVar(subs[k].i).lowerbound, RatMul(y, subs[k].v))
                             /\ RatLE(RatMul(y, subs[k].v), SrcVar(subs[k].i).upperbound)
    /\ \A n \in Names(src) :
           (~InSubs(subs, n) /\ Naming(n) = {}) => n \in Names(dst) /\ SameVariable(DstVar(n), SrcVar(n))

Escaped(n) == {n, "_" \o n, "__" \o n}

\* the constraint d of the returned program is the source constraint c
\* rewritten: same sense, rhs' = rhs - constant part, and the same left-hand
\* side up to the constant part at every assignment
Rewritten(d, c) ==
    /\ d[1] = "quadratic" => c[1] = "quadratic"
    /\ NameOf(dst, d) \in (IF d[1] = c[1] THEN {NameOf(src, c)} ELSE Escaped(NameOf(src, c)))
    /\ SenseOf(dst, d) = SenseOf(src, c)
    /\ RhsOf(dst, d) = RhsOf(src, c) - ConstantPart(c)
    /\ \A y \in Assignments(dst) :
           Lhs(dst, d, y) = Lhs(src, c, Extended(y)) - ConstantPart(c)

\* C9: on Success every kept constraint is a source constraint with its sense
\* and with rhs' = rhs - (the constant contributions of the substituted
\* variables), and an assignment of the remaining variables satisfies the
\* constraints of the returned program exactly when its extension satisfies
\* the constraints of the source.
C9_ConstraintsSubstituted ==
    StatusIs(Success) =>
        /\ \A d \in Constraints(dst) : \E c \in Constraints(src) : Rewritten(d, c)
        /\ \A y \in Assignments(dst) : Satisfies(dst, y) <=> Satisfies(src, Extended(y))

\* x <- 5 in the first program with x in [4, 6]: c0 and c1 are kept with
\* right-hand sides 3 - 10 and 1 - 5, q0 becomes the linear constraint q0 and
\* the quadratic c0 the linear constraint _c0 with right-hand side 2 - 25
C9_Witness ==
    /\ StatusIs(Success)
    /\ subs = <<[i |-> "x", j |-> CONST, v |-> 5]>>
    /\ Len(src.quadratic_constraints) = 2
    /\ Len(dst.quadratic_constraints) = 0
    /\ Len(dst.linear_constraints) = 4
    /\ dst.linear_constraints[1].rhs = -7
    /\ dst.linear_constraints[2].rhs = -4
    /\ dst.linear_constraints[4].name = "_c0"
    /\ dst.linear_constraints[4].rhs = -23

\* C10: no constraint of the returned program is trivial (a linear constraint
\* has a nonzero linear coefficient, a quadratic constraint a nonzero quadratic
\* coefficient), and a constraint whose variable part vanishes is not kept and
\* flags Infeasible when 0 `sense` rhs' is false.
C10_NoTrivialConstraint ==
    IsReturned =>
        /\ \A k \in 1 .. Len(dst.linear_constraints) :
               \E i \in DOMAIN dst.linear_constraints[k].linear :
                   dst.linear_constraints[k].linear[i] # 0
        /\ \A k \in 1 .. Len(dst.quadratic_constraints) :
               \E ij \in DOMAIN dst.quadratic_constraints[k].quadratic :
                   dst.quadratic_constraints[k].quadratic[ij] # 0
        /\ VanishedInfeasible => outcome.status = Some(Infeasible)

\* the left-hand side of the source constraint c under the substitution, less
\* its constant part, at the assignment y of the remaining variables
Image(c, y) == Lhs(src, c, Extended(y)) - ConstantPart(c)

\* the assignment that gives n the value 2 and the other variables 0
Unit(n) == [m \in Names(dst) |-> IF m = n THEN 2 ELSE 0]

\* no term of degree two is left of the source constraint c
QuadraticPartVanishes(c) ==
    \A y \in Assignments(dst) :
        2 * Image(c, y) = SumFn([n \in Names(dst) |-> Image(c, Unit(n)) * y[n]])

\* the quadratic part of the source constraint c becomes empty and its linear
\* part does not
Degrades(c) == c[1] = "quadratic" /\ QuadraticPartVanishes(c) /\ ~Vanishes(c)

RECURSIVE Underscores(_, _)
\* '_' * k + n
Underscores(k, n) == IF k = 0 THEN n ELSE "_" \o Underscores(k - 1, n)

\* the names of the linear constraints of the result before position m
LinearNamesBefore(m) == {dst.linear_constraints[i].name : i \in 1 .. m - 1}

\* the source constraint c is in the linear collection of the result, under
\* its name with the fewest '_' that no earlier linear constraint has, and not
\* in the quadratic collection
EmittedAsLinear(c) ==
    /\ \A k \in 1 .. Len(dst.quadratic_constraints) :
           dst.quadratic_constraints[k].name # NameOf(src, c)
    /\ \E m \in 1 .. Len(dst.linear_constraints), k \in 0 .. 2 :
           /\ dst.linear_constraints[m].name = Underscores(k, NameOf(src, c))
           /\ Underscores(k, NameOf(src, c)) \notin LinearNamesBefore(m)
           /\ \A h \in 0 .. k - 1 : Underscores(h, NameOf(src, c)) \in LinearNamesBefore(m)
           /\ Rewritten(<<"linear", m>>, c)

\* the passes raise no duplicate-name error and the names of the linear
\* constraints of the destination differ
NamesStayDistinct ==
    /\ (pc = "raised" /\ outcome.at # "called") => outcome.raised # "QiskitOptimizationError"
    /\ pc # "called" =>
           \A a, b \in 1 .. Len(dst.linear_constraints) :
               a # b => dst.linear_constraints[a].name # dst.linear_constraints[b].name

SameCoefficients(m1, m2) ==
    \A k \in (DOMAIN m1) \cup (DOMAIN m2) : DokGet(m1, k) = DokGet(m2, k)

\* the destination has the variables, the objective and, position by
\* position in the same collections, the constraints of the source
SameProgram ==
    /\ Len(dst.variables) = Len(src.variables)
    /\ \A k \in 1 .. Len(src.variables) :
           k <= Len(dst.variables) /\ SameVariable(dst.variables[k], src.variables[k])
    /\ dst.variables_index = src.variables_index
    /\ dst.objective.sense = src.objective.sense
    /\ dst.objective.constant = src.objective.constant
    /\ SameCoefficients(dst.objective.linear, src.objective.linear)
    /\ SameCoefficients(dst.objective.quadratic, src.objective.quadratic)
    /\ Len(dst.linear_constraints) = Len(src.linear_constraints)
    /\ \A k \in 1 .. Len(src.linear_constraints) :
           /\ k <= Len(dst.linear_constraints)
           /\ dst.linear_constraints[k].name = src.linear_constraints[k].name
           /\ dst.linear_constraints[k].sense = src.linear_constraints[k].sense
           /\ dst.linear_constraints[k].rhs = src.linear_constraints[k].rhs
           /\ SameCoefficients(dst.linear_constraints[k].linear,
                               src.linear_constraints[k].linear)
    /\ Len(dst.quadratic_constraints) = Len(src.quadratic_constraints)
    /\ \A k \in 1 .. Len(src.quadratic_constraints) :
           /\ k <= Len(dst.quadratic_constraints)
           /\ dst.quadratic_constraints[k].name = src.quadratic_constraints[k].name
           /\ dst.quadratic_constraints[k].sense = src.quadratic_constraints[k].sense
           /\ dst.quadratic_constraints[k].rhs = src.quadratic_constraints[k].rhs
           /\ SameCoefficients(dst.quadratic_constraints[k].linear,
                               src.quadratic_constraints[k].linear)
           /\ SameCoefficients(dst.quadratic_constraints[k].quadratic,
                               src.quadratic_constraints[k].quadratic)

\* constants and variables are empty or absent
EmptyMaps == constants = <<>> /\ variables = <<>>

\* every linear constraint of the source has a nonzero linear coefficient and
\* every quadratic constraint a nonzero quadratic coefficient
NoTrivialSource ==
    /\ \A k \in 1 .. Len(src.linear_constraints) :
           \E i \in DOMAIN src.linear_constraints[k].linear :
               src.linear_constraints[k].linear[i] # 0
    /\ \A k \in 1 .. Len(src.quadratic_constraints) :
           \E ij \in DOMAIN src.quadratic_constraints[k].quadratic :
               src.quadratic_constraints[k].quadratic[ij] # 0

\* the call has ended, and with Success and the program of the source
ReturnsSameProgram ==
    /\ pc # "raised"
    /\ IsReturned => outcome.status = Some(Success) /\ SameProgram

\* C12 as stated: with empty maps every source program comes back the same.
C12_RoundTripAlways == (EmptyMaps /\ pc \in {"raised", "returned"}) => ReturnsSameProgram

\* C12: with empty maps a source program whose linear constraints each have a
\* nonzero linear coefficient and whose quadratic constraints each have a
\* nonzero quadratic coefficient comes back with status Success and the same
\* variables, objective and constraints.
C12_RoundTrip ==
    (EmptyMaps /\ NoTrivialSource /\ pc \in {"raised", "returned"}) => ReturnsSameProgram

\* the first program with empty maps
C12_Witness ==
    /\ EmptyMaps
    /\ StatusIs(Success)
    /\ NoTrivialSource
    /\ src.objective.sense = "MINIMIZE"
    /\ nnz(dst.objective.quadratic) = 4
    /\ Len(dst.linear_constraints) = 2
    /\ Len(dst.quadratic_constraints) = 2
    /\ dst.quadratic_constraints[2].name = "c0"
    /\ nnz(dst.quadratic_constraints[2].quadratic) = 1

\* the name of the source variable that the key i of a map denotes
Denoted(i) ==
    IF i.t = "str" THEN i.s
    ELSE src.variables[(IF i.n < 0 THEN Len(src.variables) + i.n ELSE i.n) + 1].name

\* the names of the variables that the keys of constants and variables denote
SubstitutedNames ==
    {Denoted(constants[k][1]) : k \in 1 .. Len(constants)}
    \cup {Denoted(variables[k][1]) : k \in 1 .. Len(variables)}

\* the replacement j of some entry i <- (j, v) is itself substituted
ChainedInput ==
    \E k \in 1 .. Len(variables) : Denoted(variables[k][2]) \in SubstitutedNames

\* the call was rejected in its setup with a substitution error, and the
\* destination is as it was created
RejectedInSetup ==
    /\ pc = "raised"
    /\ outcome.raised = "QiskitOptimizationError"
    /\ outcome.at = "called"
    /\ dst = NewObject(QuadraticProgram(src.name), src)

\* C13: an input in which the replacement variable of an entry of variables
\* is itself substituted, in either map and in whatever order, is rejected in
\* the setup with a substitution error, before anything is written to the
\* destination.
C13_ChainedRejected == (ChainedInput /\ pc # "called") => RejectedInSetup

\* one variable is substituted by two items of the maps
DuplicateInput ==
    \/ \E a, b \in 1 .. Len(constants) :
           a # b /\ Denoted(constants[a][1]) = Denoted(constants[b][1])
    \/ \E a, b \in 1 .. Len(variables) :
           a # b /\ Denoted(variables[a][1]) = Denoted(variables[b][1])
    \/ \E a \in 1 .. Len(constants), b \in 1 .. Len(variables) :
           Denoted(constants[a][1]) = Denoted(variables[b][1])

\* a variable is substituted by itself
SelfInput ==
    \E k \in 1 .. Len(variables) : Denoted(variables[k][1]) = Denoted(variables[k][2])

\* the scale of a variable substitution is 0
ZeroInput == \E k \in 1 .. Len(variables) : variables[k][3] = 0

\* C14: a variable substituted twice across constants and variables (by name
\* or by index), a variable substituted by itself and a scale 0 each make the
\* call fail with a substitution error; no program is returned.
C14_InvalidRejected ==
    ((DuplicateInput \/ SelfInput \/ ZeroInput) /\ pc # "called") => RejectedInSetup

\* x is substituted by the constant 1 under the index 0 and by z under its name
C14_Witness ==
    /\ constants = <<<<IntKey(0), 1>>>>
    /\ variables = <<<<StrKey("x"), StrKey("z"), 2>>>>
    /\ ~SelfInput /\ ~ZeroInput /\ ~ChainedInput
    /\ pc = "raised"
    /\ outcome.raised = "QiskitOptimizationError"

\* a step of the call leaves the source as it is
C15_SourceUnchanged == src' = src

\* the destination is another object than the source, and so is each of its
\* variables
C15_DistinctInstance ==
    pc # "called" =>
        /\ dst.id # src.id
        /\ \A k \in 1 .. Len(dst.variables) :
               /\ dst.variables[k].quadratic_program = dst.id
               /\ \A m \in 1 .. Len(src.variables) :
                      ~SameObject(dst.variables[k], src.variables[m])

\* C15: no step of substitute_variables changes the source program (its
\* variables with their bounds, its constraints, its objective), whether the
\* call returns or raises; the destination is a distinct instance with
\* variable objects of its own, so its tightened bounds are not in the source.
C15_SourceNeverMutated == []C15_DistinctInstance /\ [][C15_SourceUnchanged]_vars

\* x <- (z, 2) with x in [4, 6]: z has the bounds [2, 1] in the destination
\* and [0, 1] in the source
C15_Witness ==
    /\ IsReturned
    /\ subs = <<[i |-> "x", j |-> "z", v |-> 2]>>
    /\ DstVar("z").lowerbound = Int2Rat(2)
    /\ SrcVar("z").lowerbound = Int2Rat(0)
    /\ SrcVar("x").lowerbound = Int2Rat(4)

\* C16: a program returned with status infeasible is empty: it has no
\* variables, no linear constraints and no quadratic constraints.
C16_InfeasibleIsEmpty ==
    StatusIs(Infeasible) =>
        /\ Len(dst.variables) = 0
        /\ Len(dst.linear_constraints) = 0
        /\ Len(dst.quadratic_constraints) = 0

-----------------------------------------------------------------------------
(* IsingToQuadraticProgram.  An operator of qiskit.aqua.operators is         *)
(* modelled by what convert reads of it: its class, num_qubits, and the      *)
(* terms of to_pauli_op(), each a PauliOp with the arrays z and x of its     *)
(* Pauli (the sets of the positions that hold True) and the real part of its *)
(* coefficient.  A numpy matrix is a function on the pairs <<i, j>>.          *)

\* PauliOp(Pauli(z, x), coeff)
PauliOp(z, x, coeff) == [z |-> z, x |-> x, coeff |-> coeff]

\* an operator of class cls on num_qubits qubits with the Pauli terms oplist
Operator(cls, num_qubits, oplist) ==
    [cls |-> cls, num_qubits |-> num_qubits, oplist |-> oplist]

\* the classes of the instances of ListOp: ListOp and its subclass SummedOp
\* (the combinator that recombines its list by a sum)
ListOpClasses == {"ListOp", "SummedOp"}

\* isinstance(op, ListOp)
IsListOp(op) == op.cls \in ListOpClasses

\* isinstance(op, SummedOp)
IsSummedOp(op) == op.cls = "SummedOp"

\* IsingToQuadraticProgram(linear)
IsingToQuadraticProgram(linear) ==
    [_qubit_op |-> None, _offset |-> 0, _num_qubits |-> 0, _qubo_matrix |-> None,
     _qp |-> None, _linear |-> linear]

\* np.zeros((n, n))
zeros(n) == [ij \in (0 .. (n - 1)) \X (0 .. (n - 1)) |-> 0]

\* z_index[0] and z_index[num_z - 1] of [i for i, z in enumerate(lst_z) if z is True]
FirstOf(S) == CHOOSE a \in S : \A b \in S : a <= b

LastOf(S) == CHOOSE a \in S : \A b \in S : b <= a

\* the loop of _create_qubo_matrix over oplist from term k on: the matrix it
\* leaves in self._qubo_matrix, and the error it raises
RECURSIVE CreateQuboMatrixFrom(_, _, _)
CreateQuboMatrixFrom(oplist, m, k) ==
    IF k > Len(oplist) THEN [m |-> m, raised |-> "none", msg |-> ""]
    ELSE LET pauli_op == oplist[k]
             num_z == Cardinality(pauli_op.z)
         IN  IF num_z = 1 \/ num_z = 2
             THEN LET m1 == [m EXCEPT ![<<FirstOf(pauli_op.z), LastOf(pauli_op.z)>>] =
                                          pauli_op.coeff]
                  IN  IF Cardinality(pauli_op.x) > 0
                      THEN [m |-> m1, raised |-> "QiskitOptimizationError",
                            msg |-> "Pauli Xs exist in the Pauli"]
                      ELSE CreateQuboMatrixFrom(oplist, m1, k + 1)
             ELSE [m |-> m, raised |-> "QiskitOptimizationError",
                   msg |-> "There are more than 2 Pauli Zs in the Pauli term"]

\* _create_qubo_matrix()
_create_qubo_matrix(self) ==
    LET qubit_op == Val(self._qubit_op)
        oplist == IF ~IsSummedOp(qubit_op) THEN <<qubit_op.oplist[1]>> ELSE qubit_op.oplist
    IN  CreateQuboMatrixFrom(oplist, zeros(self._num_qubits), 1)

\* self._qp = QuadraticProgram(name) with the variables x_0 .. x_{n-1} from
\* variable i on
RECURSIVE BinaryVars(_, _, _)
BinaryVars(p, i, n) ==
    IF i >= n THEN p
    ELSE BinaryVars(binary_var(p, Some(Format("x_", i))).p, i + 1, n)

\* coef = weight * 4, half of it
QuadraticCoef_halved(weight) == weight * 2

\* coef = weight * 4
QuadraticCoef(weight) == weight * 4

\* the loops `for i, row in enumerate(self._qubo_matrix): for j, weight in
\* enumerate(row)` from (i, j) on; st holds self._qubo_matrix (m),
\* quadratic_terms and offset
RECURSIVE QuadraticLoop(_, _, _, _)
QuadraticLoop(st, n, i, j) ==
    IF i >= n THEN st
    ELSE IF j >= n THEN QuadraticLoop(st, n, i + 1, 0)
    ELSE IF j <= i THEN QuadraticLoop(st, n, i, j + 1)
    ELSE LET weight == st.m[<<i, j>>]
             m1 == [st.m EXCEPT ![<<i, j>>] = @ - weight]
             m2 == [m1 EXCEPT ![<<i, i>>] = @ + weight]
             m3 == [m2 EXCEPT ![<<j, j>>] = @ + weight]
         IN  QuadraticLoop([m |-> m3,
                            quadratic_terms |->
                                DictSetItem(st.quadratic_terms, <<i, j>>, QuadraticCoef(weight)),
                            linear_terms |-> st.linear_terms,
                            offset |-> st.offset - weight],
                           n, i, j + 1)

\* the loop `for i in range(self._num_qubits)` from i on
RECURSIVE LinearLoop(_, _, _, _)
LinearLoop(st, linear, n, i) ==
    IF i >= n THEN st
    ELSE LET weight == st.m[<<i, i>>]
             coef == weight * 2
         IN  LinearLoop([m |-> [st.m EXCEPT ![<<i, i>>] = @ - weight],
                         quadratic_terms |->
                             IF linear THEN st.quadratic_terms
                             ELSE DictSetItem(st.quadratic_terms, <<i, i>>, -coef),
                         linear_terms |->
                             IF linear THEN DictSetItem(st.linear_terms, i, -coef)
                             ELSE st.linear_terms,
                         offset |-> st.offset + weight],
                        linear, n, i + 1)

-----------------------------------------------------------------------------
(* One call IsingToQuadraticProgram(linear).convert(qubit_op, offset).       *)

MaxQubits == 3

MaxTerms == 2

Weights == {-2, 1}

Offsets == {0, 5}

Qubits(n) == 0 .. (n - 1)

\* a single Pauli term: any z array, the x array empty or with qubit 0 set
PauliOps(n) ==
    {Operator("PauliOp", n, <<PauliOp(z, x, w)>>) :
        z \in SUBSET Qubits(n), x \in {{}, {0}}, w \in Weights}

\* the lists of 2 to max Z-only terms of weight 1
TermLists(n, max) ==
    UNION {[1 .. k -> {PauliOp(z, {}, 1) : z \in SUBSET Qubits(n)}] : k \in 2 .. max}

\* a sum of Pauli terms, and a plain list of them
ListOps(n) ==
    {Operator(cls, n, oplist) : cls \in ListOpClasses, oplist \in TermLists(n, MaxTerms)}

Operators == UNION {PauliOps(n) \cup ListOps(n) : n \in 1 .. MaxQubits}

InitIsing ==
    /\ NewProgram
    /\ NoSubstitution
    /\ NoQubo
    /\ NoIsing
    /\ NoOperators
    /\ NoAqgd

\* IsingToQuadraticProgram(linear), then convert(qubit_op, offset) is called
Construct ==
    /\ ising = None
    /\ \E linear \in BOOLEAN, qubit_op \in Operators, offset \in Offsets :
          /\ ising' = Some(IsingToQuadraticProgram(linear))
          /\ isingFrame' = [qubit_op |-> qubit_op, offset |-> offset, name |-> "",
                            linear_terms |-> EmptyDict, quadratic_terms |-> EmptyDict,
                            pc |-> "called"]
    /\ UNCHANGED <<qpVars, subVars, algVars, quboVars, isingOut>>

IsingRaised(exception, msg) == Some([raised |-> exception, msg |-> msg, ret |-> None])

\* the ListOp test, then self._qubit_op, self._offset, self._num_qubits are set
SetProperties ==
    /\ ising # None /\ isingFrame.pc = "called"
    /\ IF IsListOp(isingFrame.qubit_op)
       THEN /\ isingFrame' = [isingFrame EXCEPT !.pc = "raised"]
            /\ isingOut' = IsingRaised("NotImplementedError",
                                       "Conversion of a ListOp is not supported")
            /\ UNCHANGED ising
       ELSE /\ ising' = Some([Val(ising) EXCEPT !._qubit_op = Some(isingFrame.qubit_op),
                                                !._offset = isingFrame.offset,
                                                !._num_qubits = isingFrame.qubit_op.num_qubits])
            /\ isingFrame' = [isingFrame EXCEPT !.pc = "program"]
            /\ UNCHANGED isingOut
    /\ UNCHANGED <<qpVars, subVars, algVars, quboVars>>

\* self._qp = QuadraticProgram(name=name) and its binary variables
CreateProgram ==
    /\ ising # None /\ isingFrame.pc = "program"
    /\ ising' = Some([Val(ising) EXCEPT !._qp =
                         Some(BinaryVars(QuadraticProgram(isingFrame.name), 0,
                                         Val(ising)._num_qubits))])
    /\ isingFrame' = [isingFrame EXCEPT !.pc = "matrix"]
    /\ UNCHANGED <<qpVars, subVars, algVars, quboVars, isingOut>>

\* self._create_qubo_matrix()
CreateQuboMatrix ==
    /\ ising # None /\ isingFrame.pc = "matrix"
    /\ LET r == _create_qubo_matrix(Val(ising)) IN
       /\ ising' = Some([Val(ising) EXCEPT !._qubo_matrix = Some(r.m)])
       /\ IF r.raised # "none"
          THEN /\ isingFrame' = [isingFrame EXCEPT !.pc = "raised"]
               /\ isingOut' = IsingRaised(r.raised, r.msg)
          ELSE /\ isingFrame' = [isingFrame EXCEPT !.pc = "quadratic"]
               /\ UNCHANGED isingOut
    /\ UNCHANGED <<qpVars, subVars, algVars, quboVars>>

\* linear_terms = {}; quadratic_terms = {}; the loop over the upper triangle
QuadraticTerms ==
    /\ ising # None /\ isingFrame.pc = "quadratic"
    /\ LET st == QuadraticLoop([m |-> Val(Val(ising)._qubo_matrix),
                                quadratic_terms |-> EmptyDict, linear_terms |-> EmptyDict,
                                offset |-> isingFrame.offset],
                               Val(ising)._num_qubits, 0, 0)
       IN  /\ ising' = Some([Val(ising) EXCEPT !._qubo_matrix = Some(st.m)])
           /\ isingFrame' = [isingFrame EXCEPT !.quadratic_terms = st.quadratic_terms,
                                               !.linear_terms = st.linear_terms,
                                               !.offset = st.offset,
                                               !.pc = "linear"]
    /\ UNCHANGED <<qpVars, subVars, algVars, quboVars, isingOut>>

\* the loop over the diagonal
LinearTerms ==
    /\ ising # None /\ isingFrame.pc = "linear"
    /\ LET st == LinearLoop([m |-> Val(Val(ising)._qubo_matrix),
                             quadratic_terms |-> isingFrame.quadratic_terms,
                             linear_terms |-> isingFrame.linear_terms,
                             offset |-> isingFrame.offset],
                            Val(ising)._linear, Val(ising)._num_qubits, 0)
       IN  /\ ising' = Some([Val(ising) EXCEPT !._qubo_matrix = Some(st.m)])
           /\ isingFrame' = [isingFrame EXCEPT !.quadratic_terms = st.quadratic_terms,
                                               !.linear_terms = st.linear_terms,
                                               !.offset = st.offset,
                                               !.pc = "objective"]
    /\ UNCHANGED <<qpVars, subVars, algVars, quboVars, isingOut>>

\* self._qp.minimize(constant=offset, linear=linear_terms,
\* quadratic=quadratic_terms); offset -= offset; return self._qp
ReturnProgram ==
    /\ ising # None /\ isingFrame.pc = "objective"
    /\ LET r == minimize(Val(Val(ising)._qp), isingFrame.offset,
                         Some(ByIndex(isingFrame.linear_terms)),
                         Some(ByIndex(isingFrame.quadratic_terms)))
       IN  /\ ising' = Some([Val(ising) EXCEPT !._qp = Some(r.p)])
           /\ IF r.raised # "none"
              THEN /\ isingFrame' = [isingFrame EXCEPT !.pc = "raised"]
                   /\ isingOut' = IsingRaised(r.raised, "")
              ELSE /\ isingFrame' = [isingFrame EXCEPT !.offset = @ - @, !.pc = "returned"]
                   /\ isingOut' = Some([raised |-> "none", msg |-> "", ret |-> Some(r.p)])
    /\ UNCHANGED <<qpVars, subVars, algVars, quboVars>>

NextIsing ==
    \/ Construct
    \/ SetProperties
    \/ CreateProgram
    \/ CreateQuboMatrix
    \/ QuadraticTerms
    \/ LinearTerms
    \/ ReturnProgram

SpecIsing == InitIsing /\ [][NextIsing]_vars

-----------------------------------------------------------------------------
(* Properties of IsingToQuadraticProgram.convert (specification SpecIsing).  *)

IsingReturned == ising # None /\ isingFrame.pc = "returned"

IsingHasRaised == ising # None /\ isingFrame.pc = "raised"

\* the bitstrings x in {0,1}^n
Bitstrings(n) == [Qubits(n) -> {0, 1}]

\* the product over the qubits in S of (1 - 2 * x_i)
RECURSIVE SpinProduct(_, _)
SpinProduct(S, x) ==
    IF S = {} THEN 1
    ELSE LET i == FirstOf(S) IN (1 - 2 * x[i]) * SpinProduct(S \ {i}, x)

\* the value of the operator at the bitstring x: the sum over its terms of
\* weight * product over the term's qubits
OperatorValue(op, x) ==
    SumFn([k \in 1 .. Len(op.oplist) |->
              op.oplist[k].coeff * SpinProduct(op.oplist[k].z, x)])

\* the bitstring x as an assignment of the variables x_0 .. x_{n-1} of p
AsAssignment(p, x) ==
    [nm \in Names(p) |-> x[CHOOSE i \in DOMAIN x : Format("x_", i) = nm]]

\* the returned program has the binary variables x_0 .. x_{n-1} and no other
OneBinaryPerQubit(p, n) ==
    /\ Len(p.variables) = n
    /\ \A i \in Qubits(n) :
          /\ p.variables[i + 1].name = Format("x_", i)
          /\ p.variables[i + 1].vartype = "BINARY"
          /\ p.variables[i + 1].lowerbound = Int2Rat(0)
          /\ p.variables[i + 1].upperbound = Int2Rat(1)
          /\ p.variables_index[Format("x_", i)] = i

\* linear=True: no diagonal quadratic entry; linear=False: empty linear part
StoredByMode(p, linear) ==
    IF linear
    THEN \A ij \in DOMAIN p.objective.quadratic : ij[1] # ij[2]
    ELSE nnz(p.objective.linear) = 0

\* C17: for every operator that convert accepts, on n qubits, and every
\* offset, the returned program has exactly the binary variables
\* x_0 .. x_{n-1} and a minimised objective whose value at every bitstring is
\* offset + the sum over the terms of weight * product of (1 - 2 * x_i); the
\* 1-local contributions are linear coefficients when linear=True and
\* diagonal quadratic entries, with an empty linear part, when linear=False.
C17_ObjectiveIsOperator ==
    IsingReturned =>
        LET self == Val(ising)
            p == Val(Val(isingOut).ret)
            qubit_op == isingFrame.qubit_op
        IN  /\ p = Val(self._qp)
            /\ OneBinaryPerQubit(p, qubit_op.num_qubits)
            /\ p.objective.sense = "MINIMIZE"
            /\ StoredByMode(p, self._linear)
            /\ \A x \in Bitstrings(qubit_op.num_qubits) :
                   ObjectiveValue(p, AsAssignment(p, x))
                       = self._offset + OperatorValue(qubit_op, x)

\* Z_0 Z_1 with weight 1, offset 0, linear=False: the objective is
\* 1 - 4 x_0 - 4 x_1 + 4 x_0 x_1 on the diagonal and the pair (0, 1), which is
\* 1 at 00 and 11 and -1 at 01 and 10
C17_Witness ==
    /\ IsingReturned
    /\ isingFrame.qubit_op = Operator("PauliOp", 2, <<PauliOp({0, 1}, {}, 1)>>)
    /\ Val(ising)._offset = 0
    /\ ~Val(ising)._linear
    /\ LET p == Val(Val(isingOut).ret)
           at(x0, x1) == ObjectiveValue(p, ("x_0" :> x0) @@ ("x_1" :> x1))
       IN  /\ at(0, 0) = 1 /\ at(1, 1) = 1 /\ at(0, 1) = -1 /\ at(1, 0) = -1
           /\ p.objective.quadratic = (<<0, 0>> :> -2) @@ (<<1, 1>> :> -2) @@ (<<0, 1>> :> 4)
           /\ nnz(p.objective.linear) = 0

\* the term has an X component, or acts on three or more qubits
Unsupported(pauli_op) ==
    \/ pauli_op.x # {}
    \/ Cardinality(pauli_op.z \cup pauli_op.x) >= 3

\* a single Pauli term or a sum of Pauli terms (not a plain ListOp)
WeightedSum(op) == op.cls \in {"PauliOp", "SummedOp"}

\* C18: convert raises an error if and only if some term of the operator has
\* an X component or acts on three or more qubits; every weighted sum of
\* Z-only terms that each touch at most two qubits is converted to a program.
C18_RaisesIffUnsupported ==
    (ising # None /\ WeightedSum(isingFrame.qubit_op)
     /\ isingFrame.pc \in {"raised", "returned"}) =>
        (isingFrame.pc = "raised"
            <=> \E k \in 1 .. Len(isingFrame.qubit_op.oplist) :
                    Unsupported(isingFrame.qubit_op.oplist[k]))

-----------------------------------------------------------------------------
(* QuadraticProgramToQubo.  The coefficients, right-hand sides and constants *)
(* of the programs of this part are floats that need not be whole: they are  *)
(* counted in halves, the integer k standing for the float k / 2.  Variable  *)
(* bounds are rationals as before, and the values of variables are integers. *)

\* the floats are counted in units of 1 / Half
Half == 2

\* float.is_integer()
is_integer(coef) == coef % Half = 0

\* get_num_vars(vartype)
get_num_vars_of(p, vartype) ==
    Cardinality({k \in 1 .. Len(p.variables) : p.variables[k].vartype = vartype})

get_num_continuous_vars(p) == get_num_vars_of(p, "CONTINUOUS")

get_num_integer_vars(p) == get_num_vars_of(p, "INTEGER")

\* any(isinstance(coef, float) and not coef.is_integer() for coef in m.values())
AnyFractional(m) == \E k \in DOMAIN m : ~is_integer(m[k])

\* get_compatibility_msg(problem), every problem found compatible
get_compatibility_msg_lenient(problem) == ""

\* get_compatibility_msg(problem)
get_compatibility_msg(problem) ==
    LET continuous == IF get_num_continuous_vars(problem) > 0
                      THEN "Continuous variables are not supported! " ELSE ""
        quadratic == IF Len(problem.quadratic_constraints) > 0
                     THEN "Quadratic constraints are not supported. " ELSE ""
        compatible_with_integer_slack ==
            /\ \A k \in 1 .. Len(problem.linear_constraints) :
                   ~AnyFractional(problem.linear_constraints[k].linear)
            /\ \A k \in 1 .. Len(problem.quadratic_constraints) :
                   /\ ~AnyFractional(problem.quadratic_constraints[k].quadratic)
                   /\ ~AnyFractional(problem.quadratic_constraints[k].linear)
        slack == IF ~compatible_with_integer_slack
                 THEN "Can not convert inequality constraints to equality constraint because float coefficients are in constraints. "
                 ELSE ""
    IN  continuous \o quadratic \o slack

-----------------------------------------------------------------------------
(* The three stages.  A stage converts a program into a new program; no      *)
(* program with a quadratic constraint reaches a stage.                      *)

\* x + y, where not both are infinite with opposite signs
RatAdd(x, y) ==
    IF ~IsFinite(x) THEN x
    ELSE IF ~IsFinite(y) THEN y
    ELSE Rat(x[1] * y[2] + y[1] * x[2], x[2] * y[2])

\* the least (greatest = FALSE) or greatest value of coef * x over the bounds
\* of the variable var, in halves
TermBound(var, coef, greatest) ==
    IF (coef > 0) = greatest THEN RatMul(var.upperbound, coef)
    ELSE RatMul(var.lowerbound, coef)

\* the least or greatest value of the linear expression lin of p over the
\* bounds of its variables, in halves; the terms are added from index i on
RECURSIVE LinearBound(_, _, _, _)
LinearBound(p, lin, greatest, i) ==
    IF i >= Len(p.variables) THEN Int2Rat(0)
    ELSE IF i \in DOMAIN lin /\ lin[i] # 0
    THEN RatAdd(TermBound(p.variables[i + 1], lin[i], greatest),
                LinearBound(p, lin, greatest, i + 1))
    ELSE LinearBound(p, lin, greatest, i + 1)

\* the variables of p from position k on, added to the new program d
RECURSIVE CopyAllVariables(_, _, _)
CopyAllVariables(p, d, k) ==
    IF k > Len(p.variables) THEN d
    ELSE LET x == p.variables[k]
         IN  CopyAllVariables(p, _add_variable(d, Some(x.name), x.lowerbound, x.upperbound,
                                               x.vartype).p, k + 1)

\* the objective of p set on the new program d
CopyObjective(p, d) ==
    SetObjective(d, p.objective.constant, Some(AsDok(p.objective.linear)),
                 Some(AsDok(p.objective.quadratic)), p.objective.sense).p

\* the upper bound of the slack variable of the constraint c of p:
\* rhs - min(lhs) for <=, max(lhs) - rhs for >=
SlackBound(p, c) ==
    IF c.sense = "LE"
    THEN RatDiv(RatAdd(Int2Rat(c.rhs), RatNeg(LinearBound(p, c.linear, FALSE, 0))), Half)
    ELSE RatDiv(RatAdd(LinearBound(p, c.linear, TRUE, 0), Int2Rat(-c.rhs)), Half)

\* the linear constraints of p from position k on, added to d: an equality
\* as it is, an inequality with a new integer slack variable and the sense ==
RECURSIVE SlackLoop(_, _, _)
SlackLoop(p, d, k) ==
    IF k > Len(p.linear_constraints) THEN d
    ELSE LET c == p.linear_constraints[k]
         IN  IF c.sense = "EQ"
             THEN SlackLoop(p, linear_constraint(d, Some(AsDok(c.linear)), Sense("EQ"), c.rhs,
                                                 Some(c.name)).p, k + 1)
             ELSE LET slack == c.name \o "@int_slack"
                      d1 == integer_var(d, Some(slack), Int2Rat(0), SlackBound(p, c)).p
                      sign == IF c.sense = "LE" THEN 1 ELSE -1
                      lin == [i \in DOMAIN c.linear \cup {d1.variables_index[slack]} |->
                                 IF i = d1.variables_index[slack] THEN sign * Half
                                 ELSE c.linear[i]]
                  IN  SlackLoop(p, linear_constraint(d1, Some(AsDok(lin)), Sense("EQ"), c.rhs,
                                                     Some(c.name)).p, k + 1)

\* the name of the program a stage returns: the name set on the stage, or the
\* name of its source when none is set
StageName(name, p) == IF name = None THEN p.name ELSE Val(name)

\* InequalityToEquality(mode='integer').convert(p), the stage named name
InequalityToEquality_convert(name, p) ==
    LET d0 == NewObject(QuadraticProgram(StageName(name, p)), p)
        d1 == CopyAllVariables(p, d0, 1)
        d2 == CopyObjective(p, d1)
    IN  SlackLoop(p, d2, 1)

\* the weights of the binary expansion of the range r: the powers of two
\* c, 2c, .. while their total stays within r, then the rest of r
RECURSIVE BinaryCoefs(_, _, _)
BinaryCoefs(r, c, total) ==
    IF total + c <= r THEN <<c>> \o BinaryCoefs(r, 2 * c, total + c)
    ELSE IF r - total > 0 THEN <<r - total>>
    ELSE <<>>

\* an integer variable with finite bounds is replaced
Replaced(x) == x.vartype = "INTEGER" /\ IsFinite(x.lowerbound) /\ IsFinite(x.upperbound)

\* the binary variables name@0, name@1, .. for the weights coefs from k on
RECURSIVE AddBinaries(_, _, _, _)
AddBinaries(d, name, coefs, k) ==
    IF k > Len(coefs) THEN d
    ELSE AddBinaries(binary_var(d, Some(Format(name \o "@", k - 1))).p, name, coefs, k + 1)

\* the variables of p from position k on, converted into the new program
\* st.d; st.conv gets the image of each variable of p: x = const + the sum of
\* lin[j] * (variable j of the new program)
RECURSIVE ExpandLoop(_, _, _)
ExpandLoop(p, st, k) ==
    IF k > Len(p.variables) THEN st
    ELSE LET x == p.variables[k]
             first == Len(st.d.variables)
         IN  IF Replaced(x)
             THEN LET lb == x.lowerbound[1] \div x.lowerbound[2]
                      ub == x.upperbound[1] \div x.upperbound[2]
                      coefs == BinaryCoefs(ub - lb, 1, 0)
                  IN  ExpandLoop(p,
                          [d |-> AddBinaries(st.d, x.name, coefs, 1),
                           conv |-> Append(st.conv,
                                       [const |-> lb,
                                        lin |-> [j \in first .. (first + Len(coefs) - 1) |->
                                                    coefs[j - first + 1]]])],
                          k + 1)
             ELSE ExpandLoop(p,
                      [d |-> _add_variable(st.d, Some(x.name), x.lowerbound, x.upperbound,
                                           x.vartype).p,
                       conv |-> Append(st.conv, [const |-> 0, lin |-> (first :> 1)])],
                      k + 1)

\* f + g, coefficient by coefficient
Plus(f, g) == [k \in (DOMAIN f) \cup (DOMAIN g) |-> DokGet(f, k) + DokGet(g, k)]

\* the linear expression lin of the source, rewritten with the images conv:
\* its linear part and its constant
ImageLinear(lin, conv) ==
    [j \in UNION {DOMAIN conv[i + 1].lin : i \in DOMAIN lin} |->
        SumFn([i \in {i \in DOMAIN lin : j \in DOMAIN conv[i + 1].lin} |->
                  lin[i] * conv[i + 1].lin[j]])]

ImageConstant(lin, conv) == SumFn([i \in DOMAIN lin |-> lin[i] * conv[i + 1].const])

\* the quadratic expression q of the source, rewritten with the images conv:
\* its quadratic part, its linear part and its constant
QuadraticImage(q, conv) ==
    [ab \in UNION {(DOMAIN conv[ij[1] + 1].lin) \X (DOMAIN conv[ij[2] + 1].lin) :
                   ij \in DOMAIN q} |->
        SumFn([ij \in {ij \in DOMAIN q : /\ ab[1] \in DOMAIN conv[ij[1] + 1].lin
                                         /\ ab[2] \in DOMAIN conv[ij[2] + 1].lin} |->
                  q[ij] * conv[ij[1] + 1].lin[ab[1]] * conv[ij[2] + 1].lin[ab[2]]])]

QuadraticImageLinear(q, conv) ==
    [j \in UNION {(DOMAIN conv[ij[1] + 1].lin) \cup (DOMAIN conv[ij[2] + 1].lin) :
                  ij \in DOMAIN q} |->
        SumFn([ij \in DOMAIN q |->
                  q[ij] * (conv[ij[1] + 1].const * DokGet(conv[ij[2] + 1].lin, j)
                           + conv[ij[2] + 1].const * DokGet(conv[ij[1] + 1].lin, j))])]

QuadraticImageConstant(q, conv) ==
    SumFn([ij \in DOMAIN q |-> q[ij] * conv[ij[1] + 1].const * conv[ij[2] + 1].const])

\* the linear constraints of p from position k on, rewritten into d
RECURSIVE RewriteLinearConstraints(_, _, _, _)
RewriteLinearConstraints(p, d, conv, k) ==
    IF k > Len(p.linear_constraints) THEN d
    ELSE LET c == p.linear_constraints[k]
         IN  RewriteLinearConstraints(
                 p, linear_constraint(d, Some(ByIndex(ImageLinear(c.linear, conv))),
                                      Sense(c.sense), c.rhs - ImageConstant(c.linear, conv),
                                      Some(c.name)).p,
                 conv, k + 1)

\* IntegerToBinary().convert(p): the new program d and the images conv that
\* the stage keeps for interpret
IntegerToBinary_convert(name, p) ==
    LET st == ExpandLoop(p, [d |-> NewObject(QuadraticProgram(StageName(name, p)), p),
                             conv |-> <<>>], 1)
        o == p.objective
        d1 == SetObjective(st.d,
                           o.constant + ImageConstant(o.linear, st.conv)
                               + QuadraticImageConstant(o.quadratic, st.conv),
                           Some(ByIndex(Plus(ImageLinear(o.linear, st.conv),
                                             QuadraticImageLinear(o.quadratic, st.conv)))),
                           Some(ByIndex(QuadraticImage(o.quadratic, st.conv))),
                           o.sense).p
    IN  [d |-> RewriteLinearConstraints(p, d1, st.conv, 1), conv |-> st.conv]

\* penalty_factor * (lhs - rhs)^2 of the equality c, in halves: its
\* quadratic part, its linear part and its constant
PenaltyQuadratic(c, penalty_factor) ==
    [ij \in (DOMAIN c.linear) \X (DOMAIN c.linear) |->
        (penalty_factor * c.linear[ij[1]] * c.linear[ij[2]]) \div Half]

PenaltyLinear(c, penalty_factor) ==
    [i \in DOMAIN c.linear |-> -(penalty_factor * c.linear[i] * c.rhs)]

PenaltyConstant(c, penalty_factor) == (penalty_factor * c.rhs * c.rhs) \div Half

\* the linear equality constraints of p from position k on, each added to the
\* objective o as a penalty; a constraint that is no equality is kept (keep)
RECURSIVE PenaltyLoop(_, _, _, _)
PenaltyLoop(p, st, penalty_factor, k) ==
    IF k > Len(p.linear_constraints) THEN st
    ELSE LET c == p.linear_constraints[k]
         IN  IF c.sense = "EQ"
             THEN PenaltyLoop(p,
                      [constant |-> st.constant + PenaltyConstant(c, penalty_factor),
                       linear |-> Plus(st.linear, PenaltyLinear(c, penalty_factor)),
                       quadratic |-> Plus(st.quadratic, PenaltyQuadratic(c, penalty_factor)),
                       keep |-> st.keep],
                      penalty_factor, k + 1)
             ELSE PenaltyLoop(p, [st EXCEPT !.keep = Append(@, c)], penalty_factor, k + 1)

\* the constraints cs from position k on, added to d as they are
RECURSIVE KeepLinearConstraints(_, _, _)
KeepLinearConstraints(cs, d, k) ==
    IF k > Len(cs) THEN d
    ELSE KeepLinearConstraints(
             cs, linear_constraint(d, Some(AsDok(cs[k].linear)), Sense(cs[k].sense),
                                   cs[k].rhs, Some(cs[k].name)).p, k + 1)

\* LinearEqualityToPenalty().convert(p, penalty_factor)
LinearEqualityToPenalty_convert(p, penalty_factor) ==
    LET d0 == CopyAllVariables(p, NewObject(QuadraticProgram(p.name), p), 1)
        o == p.objective
        st == PenaltyLoop(p, [constant |-> o.constant, linear |-> o.linear,
                              quadratic |-> o.quadratic, keep |-> <<>>], penalty_factor, 1)
        d1 == SetObjective(d0, st.constant, Some(ByIndex(st.linear)),
                           Some(ByIndex(st.quadratic)), o.sense).p
    IN  KeepLinearConstraints(st.keep, d1, 1)

\* IntegerToBinary.interpret: the values x of the variables of the converted
\* program, mapped to the values of the variables of its source
IntegerToBinary_interpret(stage, x) ==
    [k \in 1 .. Len(stage._conv) |->
        stage._conv[k].const
        + SumFn([j \in DOMAIN stage._conv[k].lin |-> stage._conv[k].lin[j] * x[j + 1]])]

\* InequalityToEquality.interpret: the values of the variables of the source,
\* the slack variables left out
InequalityToEquality_interpret(stage, x) ==
    LET source == Val(stage._src)
        converted == Val(stage._dst)
    IN  [k \in 1 .. Len(source.variables) |->
            x[converted.variables_index[source.variables[k].name] + 1]]

\* QuadraticProgramToQubo(penalty, name)
QuadraticProgramToQubo(penalty, name) ==
    [_int_to_bin |-> [name |-> None, _src |-> None, _dst |-> None, _conv |-> <<>>],
     _ineq_to_eq |-> [mode |-> "integer", name |-> None, _src |-> None, _dst |-> None],
     _penalize_lin_eq_constraints |-> [_src |-> None, _dst |-> None],
     _penalty |-> penalty,
     _dst_name |-> name]

\* penalty = 1e5, counted as it is (a factor, not in halves)
DefaultPenalty == 100000

\* the penalty factor convert passes to the last stage
PenaltyFactor(self) == IF self._penalty = None THEN DefaultPenalty ELSE Val(self._penalty)

-----------------------------------------------------------------------------
(* One QuadraticProgramToQubo(penalty): convert(problem), then               *)
(* interpret(result) on a result of the converted problem.                   *)

MaxConstraints == 2

\* the second variable y of a problem: its type and bounds
YKinds ==
    {<<"INTEGER", Int2Rat(0), Int2Rat(2)>>, <<"INTEGER", Int2Rat(-1), Int2Rat(2)>>,
     <<"INTEGER", Int2Rat(0), PosInf>>, <<"CONTINUOUS", Int2Rat(0), Int2Rat(2)>>,
     <<"BINARY", Int2Rat(0), Int2Rat(1)>>}

\* linear constraints on b (variable 0) and y (variable 1), in halves:
\* b + y <= 2,  b - y >= -1,  b + y == 1,  1.5 b + y <= 2
LinearChoices ==
    {<<(0 :> 2) @@ (1 :> 2), "<=", 4>>, <<(0 :> 2) @@ (1 :> -2), ">=", -2>>,
     <<(0 :> 2) @@ (1 :> 2), "==", 2>>, <<(0 :> 3) @@ (1 :> 2), "<=", 4>>}

\* the lists of at most n different constraints
ConstraintLists(n) ==
    UNION {{l \in [1 .. m -> LinearChoices] : \A a, b \in 1 .. m : a # b => l[a] # l[b]} :
           m \in 0 .. n}

RECURSIVE AddLinearConstraints(_, _, _)
AddLinearConstraints(p, l, k) ==
    IF k > Len(l) THEN p
    ELSE AddLinearConstraints(
             linear_constraint(p, Some(ByIndex(l[k][1])), Str(l[k][2]), l[k][3], None).p,
             l, k + 1)

\* the problem with the variables b and y, the objective
\* 1 + b + 2 y + b y + y^2 (minimised), the linear constraints l and, when
\* quadratic is TRUE, the quadratic constraint b y <= 1
QuboProblem(y, l, quadratic) ==
    LET p0 == binary_var(QuadraticProgram("problem"), Some("b")).p
        p1 == _add_variable(p0, Some("y"), y[2], y[3], y[1]).p
        p2 == minimize(p1, 2, Some(ByIndex((0 :> 2) @@ (1 :> 4))),
                       Some(ByIndex((<<0, 1>> :> 2) @@ (<<1, 1>> :> 2)))).p
        p3 == AddLinearConstraints(p2, l, 1)
    IN  IF quadratic
        THEN quadratic_constraint(p3, None, Some(ByIndex(<<0, 1>> :> 2)), Str("<="), 2, None).p
        ELSE p3

QuboProblems ==
    {QuboProblem(y, l, quadratic) :
        y \in YKinds, l \in ConstraintLists(MaxConstraints), quadratic \in BOOLEAN}

Penalties == {None, Some(3)}

InitQubo ==
    /\ NewProgram
    /\ NoSubstitution
    /\ NoIsing
    /\ NoQubo
    /\ NoOperators
    /\ NoAqgd

\* QuadraticProgramToQubo(penalty), then convert(problem) is called
ConstructQubo ==
    /\ qubo = None
    /\ \E penalty \in Penalties, problem \in QuboProblems :
          /\ qubo' = Some(QuadraticProgramToQubo(penalty, None))
          /\ quboFrame' = [op |-> "convert", problem |-> problem, problem_ |-> None,
                           result |-> None, raised |-> "none", pc |-> "called"]
    /\ UNCHANGED <<qpVars, subVars, algVars, isingVars, quboCalls>>

\* msg = self.get_compatibility_msg(problem); raise when it is not empty
CheckCompatibility ==
    /\ qubo # None /\ quboFrame.pc = "called"
    /\ IF get_compatibility_msg(quboFrame.problem) # ""
       THEN quboFrame' = [quboFrame EXCEPT !.raised = "QiskitOptimizationError",
                                           !.pc = "raised"]
       ELSE quboFrame' = [quboFrame EXCEPT !.pc = "ineq_to_eq"]
    /\ UNCHANGED <<qpVars, subVars, algVars, isingVars, qubo, quboCalls>>

StageCall(stage, method, arg) == [stage |-> stage, method |-> method, arg |-> arg]

\* self._ineq_to_eq.name = self._dst_name; problem_ = self._ineq_to_eq.convert(problem)
ConvertIneqToEq ==
    /\ qubo # None /\ quboFrame.pc = "ineq_to_eq"
    /\ LET self == Val(qubo)
           d == InequalityToEquality_convert(self._dst_name, quboFrame.problem)
       IN  /\ qubo' = Some([self EXCEPT !._ineq_to_eq.name = self._dst_name,
                                        !._ineq_to_eq._src = Some(quboFrame.problem),
                                        !._ineq_to_eq._dst = Some(d)])
           /\ quboFrame' = [quboFrame EXCEPT !.problem_ = Some(d), !.pc = "int_to_bin"]
    /\ quboCalls' = Append(quboCalls, StageCall("_ineq_to_eq", "convert", 0))
    /\ UNCHANGED <<qpVars, subVars, algVars, isingVars>>

\* self._int_to_bin.name = self._dst_name; problem_ = self._int_to_bin.convert(problem_)
ConvertIntToBin ==
    /\ qubo # None /\ quboFrame.pc = "int_to_bin"
    /\ LET self == Val(qubo)
           r == IntegerToBinary_convert(self._dst_name, Val(quboFrame.problem_))
       IN  /\ qubo' = Some([self EXCEPT !._int_to_bin.name = self._dst_name,
                                        !._int_to_bin._src = quboFrame.problem_,
                                        !._int_to_bin._dst = Some(r.d),
                                        !._int_to_bin._conv = r.conv])
           /\ quboFrame' = [quboFrame EXCEPT !.problem_ = Some(r.d), !.pc = "penalize"]
    /\ quboCalls' = Append(quboCalls, StageCall("_int_to_bin", "convert", 0))
    /\ UNCHANGED <<qpVars, subVars, algVars, isingVars>>

\* problem_ = self._penalize_lin_eq_constraints.convert(problem_,
\* penalty_factor=penalty); return problem_
ConvertPenalize ==
    /\ qubo # None /\ quboFrame.pc = "penalize"
    /\ LET self == Val(qubo)
           penalty == PenaltyFactor(self)
           d == LinearEqualityToPenalty_convert(Val(quboFrame.problem_), penalty)
       IN  /\ qubo' = Some([self EXCEPT !._penalize_lin_eq_constraints._src = quboFrame.problem_,
                                        !._penalize_lin_eq_constraints._dst = Some(d)])
           /\ quboFrame' = [quboFrame EXCEPT !.problem_ = Some(d), !.pc = "returned"]
           /\ quboCalls' = Append(quboCalls,
                                  StageCall("_penalize_lin_eq_constraints", "convert", penalty))
    /\ UNCHANGED <<qpVars, subVars, algVars, isingVars>>

\* the results of the converted problem: a value 0 or 1 for each variable
Results(p) == [1 .. Len(p.variables) -> {0, 1}]

\* interpret(result) is called; result_ = self._int_to_bin.interpret(result)
InterpretIntToBin ==
    /\ qubo # None /\ quboFrame.op = "convert" /\ quboFrame.pc = "returned"
    /\ \E result \in Results(Val(quboFrame.problem_)) :
          quboFrame' = [quboFrame EXCEPT
                           !.op = "interpret",
                           !.result = Some(IntegerToBinary_interpret(Val(qubo)._int_to_bin,
                                                                     result)),
                           !.pc = "inverse_ineq_to_eq"]
    /\ quboCalls' = Append(quboCalls, StageCall("_int_to_bin", "interpret", 0))
    /\ UNCHANGED <<qpVars, subVars, algVars, isingVars, qubo>>

\* result_ = self._ineq_to_eq.interpret(result_); return result_
InterpretIneqToEq ==
    /\ qubo # None /\ quboFrame.op = "interpret" /\ quboFrame.pc = "inverse_ineq_to_eq"
    /\ quboFrame' = [quboFrame EXCEPT
                        !.result = Some(InequalityToEquality_interpret(Val(qubo)._ineq_to_eq,
                                                                       Val(quboFrame.result))),
                        !.pc = "returned"]
    /\ quboCalls' = Append(quboCalls, StageCall("_ineq_to_eq", "interpret", 0))
    /\ UNCHANGED <<qpVars, subVars, algVars, isingVars, qubo>>

NextQubo ==
    \/ ConstructQubo
    \/ CheckCompatibility
    \/ ConvertIneqToEq
    \/ ConvertIntToBin
    \/ ConvertPenalize
    \/ InterpretIntToBin
    \/ InterpretIneqToEq

SpecQubo == InitQubo /\ [][NextQubo]_vars

-----------------------------------------------------------------------------
(* Properties of QuadraticProgramToQubo (specification SpecQubo).            *)

\* the problem has a continuous variable, a quadratic constraint, or a
\* constraint coefficient that is no whole number
Incompatible(problem) ==
    \/ \E k \in 1 .. Len(problem.variables) : problem.variables[k].vartype = "CONTINUOUS"
    \/ Len(problem.quadratic_constraints) > 0
    \/ \E k \in 1 .. Len(problem.linear_constraints) :
           \E i \in DOMAIN problem.linear_constraints[k].linear :
               problem.linear_constraints[k].linear[i] % 2 # 0

\* the calls convert and then interpret make on the stages
ExpectedCalls(self) ==
    <<StageCall("_ineq_to_eq", "convert", 0),
      StageCall("_int_to_bin", "convert", 0),
      StageCall("_penalize_lin_eq_constraints", "convert",
                IF self._penalty = None THEN 100000 ELSE Val(self._penalty)),
      StageCall("_int_to_bin", "interpret", 0),
      StageCall("_ineq_to_eq", "interpret", 0)>>

\* the number of stage calls made when the call stands at pc
CallsMade(frame) ==
    IF frame.op = "convert"
    THEN CASE frame.pc \in {"called", "raised", "ineq_to_eq"} -> 0
           [] frame.pc = "int_to_bin" -> 1
           [] frame.pc = "penalize" -> 2
           [] frame.pc = "returned" -> 3
    ELSE CASE frame.pc = "inverse_ineq_to_eq" -> 4
           [] frame.pc = "returned" -> 5

\* each stage converts what the stage before it returned
StagesChained(self, frame) ==
    /\ Len(quboCalls) >= 1 => self._ineq_to_eq._src = Some(frame.problem)
    /\ Len(quboCalls) >= 2 => self._int_to_bin._src = self._ineq_to_eq._dst
    /\ Len(quboCalls) >= 3 =>
           /\ self._penalize_lin_eq_constraints._src = self._int_to_bin._dst
           /\ frame.problem_ = self._penalize_lin_eq_constraints._dst

\* C19: convert checks compatibility first; for a problem with a continuous
\* variable, a quadratic constraint or a non-integer constraint coefficient
\* it raises and no stage is ever called; otherwise it calls
\* inequality->equality, integer->binary and the penalisation once each, in
\* this order, each on the result of the one before (penalty factor 1e5 when
\* none was supplied), and interpret then calls the inverse of
\* integer->binary and after it the inverse of inequality->equality.
C19_StagesInOrder ==
    qubo # None =>
        LET self == Val(qubo) IN
        /\ Incompatible(quboFrame.problem) =>
               /\ quboCalls = <<>>
               /\ quboFrame.pc \in {"called", "raised"}
        /\ quboFrame.pc = "raised" => Incompatible(quboFrame.problem)
        /\ Len(quboCalls) = CallsMade(quboFrame)
        /\ quboCalls = SubSeq(ExpectedCalls(self), 1, Len(quboCalls))
        /\ StagesChained(self, quboFrame)

\* a problem with an inequality and an integer variable, no penalty supplied:
\* the five calls are made, the third with the factor 100000, the slack
\* variable of the first stage is expanded by the second, and interpret
\* returns a value for each of the two variables of the problem
C19_Witness ==
    /\ qubo # None
    /\ quboFrame.op = "interpret" /\ quboFrame.pc = "returned"
    /\ Val(qubo)._penalty = None
    /\ Len(quboCalls) = 5
    /\ quboCalls[3].arg = 100000
    /\ Len(quboFrame.problem.linear_constraints) = 1
    /\ quboFrame.problem.linear_constraints[1].sense = "LE"
    /\ quboFrame.problem.variables[2].vartype = "INTEGER"
    /\ "c0@int_slack" \in DOMAIN Val(Val(qubo)._ineq_to_eq._dst).variables_index
    /\ "c0@int_slack@0" \in DOMAIN Val(quboFrame.problem_).variables_index
    /\ Len(Val(quboFrame.result)) = 2

\* C20: for every problem that passes the compatibility check, convert
\* returns a program with no continuous variable, no integer variable, no
\* quadratic constraint and no linear constraint.
C20_ConvertedIsQubo ==
    (qubo # None /\ get_compatibility_msg(quboFrame.problem) = ""
     /\ quboFrame.op = "convert" /\ quboFrame.pc \in {"raised", "returned"}) =>
        /\ quboFrame.pc = "returned"
        /\ LET converted == Val(quboFrame.problem_)
           IN  /\ get_num_continuous_vars(converted) = 0
               /\ get_num_integer_vars(converted) = 0
               /\ Len(converted.quadratic_constraints) = 0
               /\ Len(converted.linear_constraints) = 0

-----------------------------------------------------------------------------
(* The constraint lists of a program and their name -> index maps.           *)

\* index has one entry per element of list, the name of each at its position
MapAgrees(list, index) ==
    /\ Cardinality(DOMAIN index) = Len(list)
    /\ \A k \in 1 .. Len(list) :
          /\ list[k].name \in DOMAIN index
          /\ index[list[k].name] = k - 1

ConstraintOps == {"linear_constraint", "quadratic_constraint"}

C28_FailedCallChangesNothing ==
    (call'.op \in ConstraintOps /\ call'.raised # "none") => qp' = qp

\* C28: after any sequence of linear_constraint / quadratic_constraint calls,
\* failed ones included (duplicate name, invalid sense), each constraint
\* name -> index map has exactly one entry per constraint of its list and
\* maps the name of each constraint to its position, and a failed call leaves
\* the program as it was.
C28_ConstraintMapsAgree ==
    /\ [](/\ MapAgrees(qp.linear_constraints, qp.linear_constraints_index)
          /\ MapAgrees(qp.quadratic_constraints, qp.quadratic_constraints_index))
    /\ [][C28_FailedCallChangesNothing]_vars

-----------------------------------------------------------------------------
(* The operator algebra of qiskit.aqua.operators: OpVec (op_vec.py), the     *)
(* base class of the combinator nodes, and OpCircuit                         *)
(* (operator_primitives/op_circuit.py), the circuit-backed leaf.             *)
(*                                                                           *)
(* Objects live in a heap h = [prims, nodes]: prims are the Instruction      *)
(* objects, nodes the operator nodes; an object is its position in its       *)
(* list, so that two nodes can hold the same Instruction and two lists the   *)
(* same child.  A coefficient is a float with an integer value.  An          *)
(* operation maps a heap to [h |-> the heap after it, raised |-> the         *)
(* exception ("none" when it returns), ret |-> the node it returns (0 when   *)
(* it returns none), matrix |-> the matrix it returns].                      *)
(*                                                                           *)
(* qiskit.circuit is a library: a circuit is the list of its gates, a gate   *)
(* one of id, x, z on one qubit, and the unitary of a circuit has qubit q    *)
(* as bit q of the row and column index.                                     *)

Heap(p, n) == [prims |-> p, nodes |-> n]

GateOn(gate, qargs) == [gate |-> gate, qargs |-> qargs]

\* an Instruction made by QuantumCircuit.to_instruction()
Instruction(name, n, definition) ==
    [name |-> name, num_qubits |-> n, _definition |-> Some(definition)]

\* range(a, b)
range(a, b) == [k \in 1 .. (b - a) |-> a + k - 1]

\* new_qc.append(instruction, qargs) and new_qc.decompose(): the gates of the
\* instruction, its qubit q being qargs[q] of the circuit
Appended(definition, qargs) ==
    [k \in 1 .. Len(definition) |->
        GateOn(definition[k].gate,
               [j \in 1 .. Len(definition[k].qargs) |-> qargs[definition[k].qargs[j] + 1]])]

\* Instruction.inverse(): the inverses of the gates in reverse order (id, x
\* and z are their own inverses)
inverse(inst) ==
    LET d == Val(inst._definition) IN
    Instruction(inst.name \o "_dg", inst.num_qubits,
                [k \in 1 .. Len(d) |-> d[Len(d) + 1 - k]])

\* the threshold of to_matrix, and the error it raises
SizeLimit == 16

SizeLimitError == "ValueError: to_matrix will return an exponentially large matrix"

\* the largest number of qubits whose matrices are written out; a wider
\* matrix is kept as its number of qubits alone
MatrixQubits == 3

Pow2(n) == 2 ^ n

Indices(n) == (0 .. (Pow2(n) - 1)) \X (0 .. (Pow2(n) - 1))

Matrix(n, entries) == [qubits |-> n, entries |-> entries]

Wide(n) == Matrix(n, <<>>)

NoMatrix == Matrix(0, <<>>)

IsWide(m) == m.qubits > MatrixQubits

Bit(b, q) == (b \div Pow2(q)) % 2

RECURSIVE Run(_, _, _)
\* the gates k, k+1, ... of a circuit acting on the basis state st.b with
\* the sign st.s
Run(definition, k, st) ==
    IF k > Len(definition) THEN st
    ELSE LET g == definition[k]
             q == g.qargs[1]
         IN  Run(definition, k + 1,
                 CASE g.gate = "x" ->
                          [b |-> st.b + (1 - 2 * Bit(st.b, q)) * Pow2(q), s |-> st.s]
                   [] g.gate = "z" ->
                          [b |-> st.b, s |-> IF Bit(st.b, q) = 1 THEN -st.s ELSE st.s]
                   [] OTHER -> st)

\* execute(qc, unitary_simulator).result().get_unitary()
Unitary(inst) ==
    IF inst.num_qubits > MatrixQubits THEN Wide(inst.num_qubits)
    ELSE Matrix(inst.num_qubits,
                [rc \in Indices(inst.num_qubits) |->
                    LET out == Run(Val(inst._definition), 1, [b |-> rc[2], s |-> 1])
                    IN  IF out.b = rc[1] THEN out.s ELSE 0])

\* matrix * coeff
Scaled(m, coeff) ==
    IF IsWide(m) THEN m
    ELSE Matrix(m.qubits, [rc \in DOMAIN m.entries |-> m.entries[rc] * coeff])

\* x + y of two arrays of the same shape
MatrixSum(x, y) ==
    IF IsWide(x) THEN x
    ELSE Matrix(x.qubits, [rc \in DOMAIN x.entries |-> x.entries[rc] + y.entries[rc]])

\* np.kron(x, y)
MatrixKron(x, y) ==
    IF x.qubits + y.qubits > MatrixQubits THEN Wide(x.qubits + y.qubits)
    ELSE LET d == Pow2(y.qubits) IN
         Matrix(x.qubits + y.qubits,
                [rc \in Indices(x.qubits + y.qubits) |->
                    x.entries[<<rc[1] \div d, rc[2] \div d>>]
                    * y.entries[<<rc[1] % d, rc[2] % d>>]])

RECURSIVE DotEntry(_, _, _, _, _)
\* the sum over j >= k of x[r, j] * y[j, c]
DotEntry(x, y, r, c, k) ==
    IF k >= Pow2(x.qubits) THEN 0
    ELSE x.entries[<<r, k>>] * y.entries[<<k, c>>] + DotEntry(x, y, r, c, k + 1)

\* np.dot(x, y) of two square arrays of the same shape
MatrixDot(x, y) ==
    IF IsWide(x) THEN x
    ELSE Matrix(x.qubits, [rc \in DOMAIN x.entries |-> DotEntry(x, y, rc[1], rc[2], 0)])

-----------------------------------------------------------------------------
(* Operator nodes.                                                           *)

\* OpVec.__init__(oplist, combo_fn, coeff); combo_fn is "identity" (the
\* default lambda x: x), "sum", "kron" or "compose"
OpVec(oplist, combo_fn, coeff) ==
    [cls |-> "OpVec", primitive |-> 0, oplist |-> oplist, combo_fn |-> combo_fn,
     coeff |-> coeff]

\* OpCircuit.__init__(primitive, coeff), primitive an Instruction
OpCircuit(primitive, coeff) ==
    [cls |-> "OpCircuit", primitive |-> primitive, oplist |-> <<>>, combo_fn |-> "",
     coeff |-> coeff]

\* the recombination function a class passes to OpVec.__init__
ComboOf(cls) ==
    CASE cls = "OpSum" -> "sum"
      [] cls = "OpKron" -> "kron"
      [] cls = "OpComposition" -> "compose"
      [] OTHER -> "identity"

\* cls(oplist, coeff=coeff), cls one of OpVec, OpSum, OpKron, OpComposition
Class(cls, oplist, coeff) == [OpVec(oplist, ComboOf(cls), coeff) EXCEPT !.cls = cls]

OpSum(oplist) == Class("OpSum", oplist, 1)

OpKron(oplist) == Class("OpKron", oplist, 1)

OpComposition(oplist) == Class("OpComposition", oplist, 1)

\* isinstance(an object of class cls, of)
IsInstance(cls, of) ==
    \/ cls = of
    \/ of = "OpVec" /\ cls \in {"OpSum", "OpKron", "OpComposition"}
    \/ of = "OpPrimitive" /\ cls = "OpCircuit"

Raise(h, exception) == [h |-> h, raised |-> exception, ret |-> 0, matrix |-> NoMatrix]

\* a constructor call: the new node is the last of the heap
NewNode(h, node) ==
    [h |-> Heap(h.prims, Append(h.nodes, node)), raised |-> "none",
     ret |-> Len(h.nodes) + 1, matrix |-> NoMatrix]

\* an existing node is returned
SameNode(h, i) == [h |-> h, raised |-> "none", ret |-> i, matrix |-> NoMatrix]

\* a new Instruction under a circuit's generated name, and a node holding it
NewCircuit(h, n, definition, coeff) ==
    LET inst == Instruction(Format("circuit", Len(h.prims)), n, definition)
    IN  NewNode(Heap(Append(h.prims, inst), h.nodes),
                OpCircuit(Len(h.prims) + 1, coeff))

RECURSIVE num_qubits(_, _), SumQubits(_, _, _)
\* sum([op.num_qubits for op in oplist]) from position k on
SumQubits(h, oplist, k) ==
    IF k > Len(oplist) THEN 0
    ELSE num_qubits(h, oplist[k]) + SumQubits(h, oplist, k + 1)

\* node.num_qubits: the Instruction's for an OpCircuit, the sum over the
\* children for an OpVec; OpKron adds the sizes of its children up as well,
\* OpSum and OpComposition have the size of their (equally sized) children
num_qubits(h, i) ==
    LET node == h.nodes[i] IN
    CASE node.cls = "OpCircuit" -> h.prims[node.primitive].num_qubits
      [] node.cls \in {"OpVec", "OpKron"} -> SumQubits(h, node.oplist, 1)
      [] OTHER -> IF node.oplist = <<>> THEN 0 ELSE num_qubits(h, node.oplist[1])

RECURSIVE equals(_, _, _), ListEq(_, _, _, _)
\* list == list from position k on: the same object, or equal by __eq__
ListEq(h, xs, ys, k) ==
    IF k > Len(xs) THEN TRUE
    ELSE /\ (xs[k] = ys[k] \/ equals(h, xs[k], ys[k]))
         /\ ListEq(h, xs, ys, k + 1)

\* self == other: OpCircuit.equals for a leaf, OpVec.equals for the others
equals(h, self, other) ==
    LET a == h.nodes[self]
        b == h.nodes[other]
    IN  IF a.cls = "OpCircuit"
        THEN IF ~IsInstance(b.cls, "OpPrimitive") \/ a.coeff # b.coeff THEN FALSE
             ELSE h.prims[a.primitive] = h.prims[b.primitive]
        ELSE IF ~IsInstance(b.cls, a.cls) \/ Len(a.oplist) # Len(b.oplist) THEN FALSE
             ELSE ListEq(h, a.oplist, b.oplist, 1)

-----------------------------------------------------------------------------
(* OpCircuit.                                                                *)

\* the error of operands with different numbers of qubits
DimensionError == "ValueError: operators with different numbers of qubits"

\* OpCircuit.add(other)
OpCircuit_add(h, self, other) ==
    LET a == h.nodes[self]
        b == h.nodes[other]
    IN  IF num_qubits(h, self) # num_qubits(h, other) THEN Raise(h, DimensionError)
        ELSE IF IsInstance(b.cls, "OpCircuit") /\ h.prims[a.primitive] = h.prims[b.primitive]
        THEN NewNode(h, OpCircuit(a.primitive, a.coeff + b.coeff))
        ELSE NewNode(h, OpSum(<<self, other>>))

\* the circuit of a Kronecker product with A's gates on the low qubits
KronDefinition_unreversed(a, b) ==
    Appended(Val(a._definition), range(0, a.num_qubits))
    \o Appended(Val(b._definition), range(a.num_qubits, a.num_qubits + b.num_qubits))

\* new_qc.append(other.primitive, new_qc.qubits[0:other.primitive.num_qubits]);
\* new_qc.append(self.primitive, new_qc.qubits[other.primitive.num_qubits:]);
\* new_qc.decompose(), a = self.primitive and b = other.primitive
KronDefinition(a, b) ==
    Appended(Val(b._definition), range(0, b.num_qubits))
    \o Appended(Val(a._definition), range(b.num_qubits, b.num_qubits + a.num_qubits))

\* OpCircuit.kron(other)
OpCircuit_kron(h, self, other) ==
    LET a == h.nodes[self]
        b == h.nodes[other]
    IN  IF IsInstance(b.cls, "OpCircuit")
        THEN NewCircuit(h, num_qubits(h, self) + num_qubits(h, other),
                        KronDefinition(h.prims[a.primitive], h.prims[b.primitive]),
                        a.coeff * b.coeff)
        ELSE NewNode(h, OpKron(<<self, other>>))

\* the circuit of a composition with A's gates first
ComposeDefinition_forward(a, b) ==
    Appended(Val(a._definition), range(0, a.num_qubits))
    \o Appended(Val(b._definition), range(0, a.num_qubits))

\* new_qc.append(other.primitive, qargs=range(self.num_qubits));
\* new_qc.append(self.primitive, qargs=range(self.num_qubits));
\* new_qc.decompose(), a = self.primitive and b = other.primitive
ComposeDefinition(a, b) ==
    Appended(Val(b._definition), range(0, a.num_qubits))
    \o Appended(Val(a._definition), range(0, a.num_qubits))

\* OpCircuit.compose(other); _check_zero_for_composition_and_expand rejects
\* an operand of another size, and no operand is the state function Zero
OpCircuit_compose(h, self, other) ==
    LET a == h.nodes[self]
        b == h.nodes[other]
    IN  IF num_qubits(h, self) # num_qubits(h, other) THEN Raise(h, DimensionError)
        ELSE IF IsInstance(b.cls, "OpCircuit")
        THEN NewCircuit(h, num_qubits(h, self),
                        ComposeDefinition(h.prims[a.primitive], h.prims[b.primitive]),
                        a.coeff * b.coeff)
        ELSE NewNode(h, OpComposition(<<self, other>>))

\* del list[i]
Deleted(list, i) == SubSeq(list, 1, i) \o SubSeq(list, i + 2, Len(list))

RECURSIVE ReduceLoop(_, _)
\* for i, inst_context in enumerate(definition): the list iterator is at
\* position i; a deletion shifts the rest of the list under it
ReduceLoop(definition, i) ==
    IF i >= Len(definition) THEN definition
    ELSE IF definition[i + 1].gate = "id"
         THEN ReduceLoop(Deleted(definition, i), i + 1)
         ELSE ReduceLoop(definition, i + 1)

\* OpCircuit.reduce()
reduce(h, self) ==
    LET p == h.nodes[self].primitive IN
    IF h.prims[p]._definition # None
    THEN SameNode(Heap([h.prims EXCEPT ![p]._definition = Some(ReduceLoop(Val(@), 0))],
                       h.nodes),
                  self)
    ELSE SameNode(h, self)

-----------------------------------------------------------------------------
(* OpVec, and adjoint and to_matrix over a tree of nodes.                    *)

Float(v) == [t |-> "float", n |-> v, s |-> ""]

\* OpVec.mul(scalar)
mul(h, self, scalar) ==
    LET a == h.nodes[self] IN
    IF scalar.t \notin {"int", "float", "complex"} THEN Raise(h, "ValueError")
    ELSE NewNode(h, Class(a.cls, a.oplist, a.coeff * scalar.n))

\* OpVec.add(other)
OpVec_add(h, self, other) ==
    IF equals(h, self, other) THEN mul(h, self, Float(2))
    ELSE NewNode(h, OpSum(<<self, other>>))

\* OpVec.neg()
neg(h, self) == mul(h, self, Float(-1))

RECURSIVE adjoint(_, _), AdjointAll(_, _, _, _)
\* [op.adjoint() for op in oplist] from position k on
AdjointAll(h, oplist, k, done) ==
    IF k > Len(oplist) THEN [h |-> h, list |-> done]
    ELSE LET r == adjoint(h, oplist[k])
         IN  AdjointAll(r.h, oplist, k + 1, Append(done, r.ret))

\* OpCircuit.adjoint() for a leaf, OpVec.adjoint() for the others; a
\* coefficient is real, np.conj leaves it as it is
adjoint(h, self) ==
    LET a == h.nodes[self] IN
    IF a.cls = "OpCircuit"
    THEN NewNode(Heap(Append(h.prims, inverse(h.prims[a.primitive])), h.nodes),
                 OpCircuit(Len(h.prims) + 1, a.coeff))
    ELSE LET r == AdjointAll(h, a.oplist, 1, <<>>)
         IN  NewNode(r.h, Class(a.cls, r.list, a.coeff))

\* OpVec.traverse(convert_fn, coeff) for convert_fn = lambda op: op
traverse(h, self, coeff) ==
    LET a == h.nodes[self] IN
    NewNode(h, Class(a.cls, a.oplist,
                     IF coeff # None /\ Val(coeff) # 0 THEN Val(coeff) ELSE a.coeff))

\* OpVec.kron(other)
OpVec_kron(h, self, other) == NewNode(h, OpKron(<<self, other>>))

\* [self] * n
Repeated(self, n) == [k \in 1 .. n |-> self]

\* OpVec.kronpower(other)
kronpower(h, self, other) ==
    IF other.t # "int" \/ other.n <= 0 THEN Raise(h, "TypeError")
    ELSE NewNode(h, OpKron(Repeated(self, other.n)))

\* OpVec.compose(other)
OpVec_compose(h, self, other) == NewNode(h, OpComposition(<<self, other>>))

\* OpVec.power(other)
power(h, self, other) ==
    IF other.t # "int" \/ other.n <= 0 THEN Raise(h, "TypeError")
    ELSE NewNode(h, OpComposition(Repeated(self, other.n)))

RECURSIVE Fold(_, _, _, _)
\* reduce(fn, list) with acc the value after the first k - 1 elements
Fold(tag, list, k, acc) ==
    IF k > Len(list) THEN [raised |-> "none", matrix |-> acc]
    ELSE IF tag # "kron" /\ list[k].qubits # acc.qubits
         THEN [raised |-> "ValueError", matrix |-> NoMatrix]
         ELSE Fold(tag, list, k + 1,
                   CASE tag = "sum" -> MatrixSum(acc, list[k])
                     [] tag = "kron" -> MatrixKron(acc, list[k])
                     [] OTHER -> MatrixDot(acc, list[k]))

\* self.combo_fn(list) * self.coeff: the default combo_fn returns the list
\* itself, and a list is not multiplied by a float
Combined(tag, list, coeff) ==
    IF tag = "identity" \/ list = <<>> THEN [raised |-> "TypeError", matrix |-> NoMatrix]
    ELSE LET r == Fold(tag, list, 2, list[1])
         IN  IF r.raised # "none" THEN r
             ELSE [raised |-> "none", matrix |-> Scaled(r.matrix, coeff)]

RECURSIVE to_matrix(_, _, _), MatricesOf(_, _, _, _)
\* [op.to_matrix() for op in oplist] from position k on
MatricesOf(h, oplist, k, done) ==
    IF k > Len(oplist) THEN [raised |-> "none", list |-> done]
    ELSE LET r == to_matrix(h, oplist[k], FALSE)
         IN  IF r.raised # "none" THEN [raised |-> r.raised, list |-> done]
             ELSE MatricesOf(h, oplist, k + 1, Append(done, r.matrix))

\* OpCircuit.to_matrix(massive) for a leaf, OpVec.to_matrix(massive) for the
\* others
to_matrix(h, self, massive) ==
    LET a == h.nodes[self] IN
    IF num_qubits(h, self) > SizeLimit /\ ~massive THEN Raise(h, SizeLimitError)
    ELSE IF a.cls = "OpCircuit"
    THEN [h |-> h, raised |-> "none", ret |-> 0,
          matrix |-> Scaled(Unitary(h.prims[a.primitive]), a.coeff)]
    ELSE LET ms == MatricesOf(h, a.oplist, 1, <<>>) IN
         IF ms.raised # "none" THEN Raise(h, ms.raised)
         ELSE LET r == Combined(a.combo_fn, ms.list, a.coeff)
              IN  [h |-> h, raised |-> r.raised, ret |-> 0, matrix |-> r.matrix]

-----------------------------------------------------------------------------
(* A caller builds operator nodes over its Instructions and then makes one   *)
(* call on them.                                                             *)

MaxNodes == 3

\* the Instructions of the caller: X, Z, a circuit with two identity gates
\* before an X, Z on qubit 0 and X on qubit 1, and two wide circuits
Catalogue ==
    << Instruction("x", 1, <<GateOn("x", <<0>>)>>),
       Instruction("z", 1, <<GateOn("z", <<0>>)>>),
       Instruction("iix", 1, <<GateOn("id", <<0>>), GateOn("id", <<0>>), GateOn("x", <<0>>)>>),
       Instruction("zx", 2, <<GateOn("z", <<0>>), GateOn("x", <<1>>)>>),
       Instruction("wide16", SizeLimit, <<GateOn("x", <<0>>)>>),
       Instruction("wide17", SizeLimit + 1, <<GateOn("x", <<0>>)>>) >>

\* (primitive, coeff) of the OpCircuit nodes the caller makes
Leaves == {<<1, 2>>, <<2, 3>>, <<3, 1>>, <<4, 1>>, <<5, 1>>, <<6, 1>>}

\* (combo_fn, coeff) of the OpVec nodes the caller makes
VecKinds == {<<"identity", 1>>, <<"identity", 3>>, <<"sum", 1>>}

\* the child lists: one or two of the nodes made so far
OpLists == {<<i>> : i \in 1 .. Len(nodes)} \cup {<<i, j>> : i, j \in 1 .. Len(nodes)}

Scalars == {Float(2), StrKey("2")}

Powers == {IntKey(0), IntKey(2)}

NoArg == [t |-> "None", n |-> 0, s |-> ""]

Bool(b) == [t |-> "bool", n |-> IF b THEN 1 ELSE 0, s |-> ""]

TheHeap == Heap(prims, nodes)

Receivers(classes) == {i \in 1 .. Len(nodes) : nodes[i].cls \in classes}

InitOp ==
    /\ NewProgram
    /\ NoSubstitution
    /\ NoIsing
    /\ NoQubo
    /\ NoAqgd
    /\ prims = Catalogue
    /\ nodes = <<>>
    /\ opCall = None

\* the caller has made one more node
Built(r) ==
    /\ opCall = None
    /\ Len(r.h.nodes) <= MaxNodes
    /\ prims' = r.h.prims
    /\ nodes' = r.h.nodes
    /\ UNCHANGED <<opCall, progVars, aqgdVars>>

\* the call op(self, other/arg) has returned or raised r
OpCalled(op, self, other, arg, r) ==
    /\ opCall = None
    /\ prims' = r.h.prims
    /\ nodes' = r.h.nodes
    /\ opCall' = Some([op |-> op, self |-> self, other |-> other, arg |-> arg,
                       raised |-> r.raised, ret |-> r.ret, matrix |-> r.matrix])
    /\ UNCHANGED <<progVars, aqgdVars>>

NewOpCircuit ==
    \E leaf \in Leaves :
        Built(NewNode(TheHeap, OpCircuit(leaf[1], leaf[2])))

NewOpVec ==
    \E oplist \in OpLists, kind \in VecKinds :
        Built(NewNode(TheHeap, OpVec(oplist, kind[1], kind[2])))

Add ==
    \E self \in Receivers({"OpCircuit", "OpVec"}), other \in 1 .. Len(nodes) :
        OpCalled("add", self, other, NoArg,
                 IF nodes[self].cls = "OpCircuit" THEN OpCircuit_add(TheHeap, self, other)
                 ELSE OpVec_add(TheHeap, self, other))

Neg ==
    \E self \in Receivers({"OpVec"}) :
        OpCalled("neg", self, 0, NoArg, neg(TheHeap, self))

Adjoint ==
    \E self \in Receivers({"OpCircuit", "OpVec"}) :
        OpCalled("adjoint", self, 0, NoArg, adjoint(TheHeap, self))

Traverse ==
    \E self \in Receivers({"OpVec"}), coeff \in {None, Some(0)} :
        OpCalled("traverse", self, 0, IF coeff = None THEN NoArg ELSE Float(Val(coeff)),
                 traverse(TheHeap, self, coeff))

Mul ==
    \E self \in Receivers({"OpVec"}), scalar \in Scalars :
        OpCalled("mul", self, 0, scalar, mul(TheHeap, self, scalar))

Kron ==
    \E self \in Receivers({"OpCircuit", "OpVec"}), other \in 1 .. Len(nodes) :
        OpCalled("kron", self, other, NoArg,
                 IF nodes[self].cls = "OpCircuit" THEN OpCircuit_kron(TheHeap, self, other)
                 ELSE OpVec_kron(TheHeap, self, other))

KronPower ==
    \E self \in Receivers({"OpVec"}), other \in Powers :
        OpCalled("kronpower", self, 0, other, kronpower(TheHeap, self, other))

Compose ==
    \E self \in Receivers({"OpCircuit", "OpVec"}), other \in 1 .. Len(nodes) :
        OpCalled("compose", self, other, NoArg,
                 IF nodes[self].cls = "OpCircuit" THEN OpCircuit_compose(TheHeap, self, other)
                 ELSE OpVec_compose(TheHeap, self, other))

Power ==
    \E self \in Receivers({"OpVec"}), other \in Powers :
        OpCalled("power", self, 0, other, power(TheHeap, self, other))

ToMatrix ==
    \E self \in Receivers({"OpCircuit", "OpVec"}), massive \in BOOLEAN :
        OpCalled("to_matrix", self, 0, Bool(massive), to_matrix(TheHeap, self, massive))

Reduce ==
    \E self \in Receivers({"OpCircuit"}) :
        OpCalled("reduce", self, 0, NoArg, reduce(TheHeap, self))

NextOp ==
    \/ NewOpCircuit
    \/ NewOpVec
    \/ Add
    \/ Neg
    \/ Adjoint
    \/ Traverse
    \/ Mul
    \/ Kron
    \/ KronPower
    \/ Compose
    \/ Power
    \/ ToMatrix
    \/ Reduce

SpecOp == InitOp /\ [][NextOp]_vars

-----------------------------------------------------------------------------
(* Operator algebra: what an operation returns.                              *)

\* the last operation was op and it returned
OpReturned(op) == opCall # None /\ Val(opCall).op = op /\ Val(opCall).raised = "none"

\* both operands of the last operation are circuit-backed nodes
OnCircuits ==
    /\ nodes[Val(opCall).self].cls = "OpCircuit"
    /\ nodes[Val(opCall).other].cls = "OpCircuit"

PrimitiveOf(i) == prims[nodes[i].primitive]

GatesOf(i) == Val(PrimitiveOf(i)._definition)

\* the gates of a circuit that act on the qubits lo .. hi - 1 only, as gates
\* on the qubits 0 .. hi - lo - 1
Block(definition, lo, hi) ==
    LET within(g) == \A j \in 1 .. Len(g.qargs) : g.qargs[j] >= lo /\ g.qargs[j] < hi
        kept == SelectSeq(definition, within)
    IN  [k \in 1 .. Len(kept) |->
            GateOn(kept[k].gate, [j \in 1 .. Len(kept[k].qargs) |-> kept[k].qargs[j] - lo])]

\* the Kronecker product of two matrices, y on the low bits of the indices
LowBlockProduct(x, y) ==
    [rc \in Indices(x.qubits + y.qubits) |->
        x.entries[<<rc[1] \div Pow2(y.qubits), rc[2] \div Pow2(y.qubits)>>]
        * y.entries[<<rc[1] % Pow2(y.qubits), rc[2] % Pow2(y.qubits)>>]]

C21_KronOfCircuits ==
    (OpReturned("kron") /\ OnCircuits) =>
        LET c == Val(opCall)
            nA == PrimitiveOf(c.self).num_qubits
            nB == PrimitiveOf(c.other).num_qubits
            r == nodes[c.ret]
        IN  /\ c.ret = Len(nodes)
            /\ c.ret \notin {c.self, c.other}
            /\ r.cls = "OpCircuit"
            /\ r.oplist = <<>>
            /\ r.coeff = nodes[c.self].coeff * nodes[c.other].coeff
            /\ PrimitiveOf(c.ret).num_qubits = nA + nB
            /\ Len(GatesOf(c.ret)) = Len(GatesOf(c.self)) + Len(GatesOf(c.other))
            /\ Block(GatesOf(c.ret), 0, nB) = GatesOf(c.other)
            /\ Block(GatesOf(c.ret), nB, nB + nA) = GatesOf(c.self)
            /\ nA + nB <= MatrixQubits =>
                   Unitary(PrimitiveOf(c.ret)).entries
                   = LowBlockProduct(Unitary(PrimitiveOf(c.self)),
                                     Unitary(PrimitiveOf(c.other)))

\* the nodes and Instructions that exist stay as they are
HeapKept ==
    /\ \A i \in 1 .. Len(nodes) : nodes'[i] = nodes[i]
    /\ \A p \in 1 .. Len(prims) : prims'[p] = prims[p]

C21_OperandsKept ==
    (opCall' # None /\ Val(opCall').op = "kron") => HeapKept

C22_ComposeRightToLeft ==
    OpReturned("compose") =>
        LET c == Val(opCall)
            r == nodes[c.ret]
        IN  /\ c.ret = Len(nodes)
            /\ c.ret \notin {c.self, c.other}
            /\ IF OnCircuits
               THEN /\ PrimitiveOf(c.self).num_qubits = PrimitiveOf(c.other).num_qubits
                    /\ r.cls = "OpCircuit"
                    /\ r.coeff = nodes[c.self].coeff * nodes[c.other].coeff
                    /\ PrimitiveOf(c.ret).num_qubits = PrimitiveOf(c.self).num_qubits
                    /\ GatesOf(c.ret) = GatesOf(c.other) \o GatesOf(c.self)
                    /\ PrimitiveOf(c.ret).num_qubits <= MatrixQubits =>
                           Unitary(PrimitiveOf(c.ret))
                           = MatrixDot(Unitary(PrimitiveOf(c.self)),
                                       Unitary(PrimitiveOf(c.other)))
               ELSE /\ r.cls = "OpComposition"
                    /\ r.oplist = <<c.self, c.other>>

\* X with coefficient 2 composed with Z with coefficient 3: the gates are Z,
\* then X, the coefficient is 6, and the matrix maps |1> to -|0>
C22_Witness ==
    /\ OpReturned("compose") /\ OnCircuits
    /\ PrimitiveOf(Val(opCall).self).name = "x" /\ nodes[Val(opCall).self].coeff = 2
    /\ PrimitiveOf(Val(opCall).other).name = "z" /\ nodes[Val(opCall).other].coeff = 3
    /\ nodes[Val(opCall).ret].coeff = 6
    /\ GatesOf(Val(opCall).ret) = <<GateOn("z", <<0>>), GateOn("x", <<0>>)>>
    /\ Unitary(PrimitiveOf(Val(opCall).ret)).entries[<<0, 1>>] = -1
    /\ Unitary(PrimitiveOf(Val(opCall).ret)).entries[<<1, 0>>] = 1

\* C23: add and compose require operands of the same size: for every pair of
\* nodes, combinator nodes as well as circuit-backed ones, whose numbers of
\* qubits differ, the call raises the dimension error and returns no node.
C23_SizesMustAgree ==
    (opCall # None /\ Val(opCall).op \in {"add", "compose"}
     /\ num_qubits(TheHeap, Val(opCall).self) # num_qubits(TheHeap, Val(opCall).other)) =>
        /\ Val(opCall).raised = DimensionError
        /\ Val(opCall).ret = 0

(***************************************************************************)
(* add: the fast path for equal operands                                   *)
(***************************************************************************)

\* the operands of the last add are circuit-backed nodes over equal primitives
SamePrimitive ==
    /\ OnCircuits
    /\ PrimitiveOf(Val(opCall).self) = PrimitiveOf(Val(opCall).other)

\* the operands of the last add are combinator nodes over the same child list
SameChildList ==
    /\ nodes[Val(opCall).self].cls # "OpCircuit"
    /\ nodes[Val(opCall).other].cls # "OpCircuit"
    /\ nodes[Val(opCall).self].oplist = nodes[Val(opCall).other].oplist

\* C24: when the two operands of add have the same underlying primitive
\* (circuit-backed nodes) or the same child list (combinator nodes), add
\* returns a single node with that primitive / child list whose coefficient is
\* the sum of the operands' coefficients; in every other case it returns a Sum
\* node with the children [self, other].
C24_AddMergesEqualOperands ==
    OpReturned("add") =>
        LET c == Val(opCall)
            a == nodes[c.self]
            b == nodes[c.other]
            r == nodes[c.ret]
        IN  IF SamePrimitive
            THEN /\ r.cls = "OpCircuit"
                 /\ PrimitiveOf(c.ret) = PrimitiveOf(c.self)
                 /\ r.coeff = a.coeff + b.coeff
            ELSE IF SameChildList
            THEN /\ r.cls = a.cls
                 /\ r.oplist = a.oplist
                 /\ r.coeff = a.coeff + b.coeff
            ELSE /\ r.cls = "OpSum"
                 /\ r.oplist = <<c.self, c.other>>

(***************************************************************************)
(* to_matrix: the size limit                                               *)
(***************************************************************************)

\* C25: to_matrix(massive=False) fails with the size-limit error for every
\* node with more than 16 qubits and does not fail with it at 16 qubits or
\* fewer; to_matrix(massive=True) never fails with the size-limit error,
\* including for a combinator node whose children have more than 16 qubits.
C25_SizeLimitOnlyWithoutMassive ==
    (opCall # None /\ Val(opCall).op = "to_matrix") =>
        LET c == Val(opCall)
        IN  (c.raised = SizeLimitError)
                <=> (c.arg = Bool(FALSE) /\ num_qubits(TheHeap, c.self) > SizeLimit)

(***************************************************************************)
(* mul: scalar multiplication and materialisation                          *)
(***************************************************************************)

\* C26: scalar multiplication distributes over materialisation: for a node op
\* within the qubit threshold (a combinator built with a non-default
\* recombination function included) and a scalar c,
\* (c * op).to_matrix() == c * op.to_matrix(); mul returns a node with the
\* same children, the same recombination function and the coefficient
\* op.coeff * c, and rejects a non-scalar argument.
C26_MulDistributes ==
    (opCall # None /\ Val(opCall).op = "mul") =>
        LET c == Val(opCall)
            a == nodes[c.self]
        IN  IF c.arg.t \notin {"int", "float", "complex"}
            THEN c.raised # "none" /\ c.ret = 0
            ELSE /\ c.raised = "none"
                 /\ c.ret = Len(nodes) /\ c.ret # c.self
                 /\ nodes[c.ret].oplist = a.oplist
                 /\ nodes[c.ret].combo_fn = a.combo_fn
                 /\ nodes[c.ret].coeff = a.coeff * c.arg.n
                 /\ num_qubits(TheHeap, c.self) <= SizeLimit =>
                        LET before == to_matrix(TheHeap, c.self, FALSE)
                            after == to_matrix(TheHeap, c.ret, FALSE)
                        IN  /\ after.raised = before.raised
                            /\ before.raised = "none" =>
                                   after.matrix = Scaled(before.matrix, c.arg.n)

(***************************************************************************)
(* Immutability of operator nodes, and reduce                              *)
(***************************************************************************)

\* the step is a call of one of the operations of a node
OperationStep == opCall = None /\ opCall' # None

\* C27: operator nodes are immutable: no operation on a node changes the
\* coefficient, the child list or the gate payload of a previously constructed
\* node, nodes sharing children or a primitive with the receiver included, and
\* every operation that returns a node returns a new one.
C27_NoOperationMutates ==
    OperationStep =>
        /\ HeapKept
        /\ (Val(opCall').raised = "none" /\ Val(opCall').op # "to_matrix") =>
               Val(opCall').ret > Len(nodes)

C27_NodesImmutable == [][C27_NoOperationMutates]_vars

IsOtherGate(g) == g.gate # "id"

\* C29: after OpCircuit.reduce() returns, the circuit's definition list holds
\* no identity gate, for every initial definition list (two or more consecutive
\* identity gates included), and the other gates are all kept in their
\* original relative order.
C29_ReduceStep ==
    (OperationStep /\ Val(opCall').op = "reduce" /\ Val(opCall').raised = "none") =>
        LET p == nodes[Val(opCall').self].primitive
        IN  Val(prims'[p]._definition) = SelectSeq(Val(prims[p]._definition), IsOtherGate)

C29_ReduceDropsIdentities == [][C29_ReduceStep]_vars

-----------------------------------------------------------------------------
(* qiskit.aqua.components.optimizers.aqgd: analytic quantum gradient descent *)
(* with epochs.  Floats are exact rationals <<numerator, denominator>>.      *)

\* x * y
RatTimes(x, y) == Rat(x[1] * y[1], x[2] * y[2])

\* x - y
RatSub(x, y) == RatAdd(x, RatNeg(y))

\* np.absolute(x)
RatAbs(x) == <<Abs(x[1]), x[2]>>

\* x < y
RatLT(x, y) == ~RatLE(y, x)

\* np.zeros(shape=(n,))
ZeroVector(n) == [i \in 1 .. n |-> Int2Rat(0)]

\* np.linalg.norm(v, ord=np.inf): the largest absolute value of an entry
NormInf(v) ==
    IF v = <<>> THEN Int2Rat(0)
    ELSE CHOOSE m \in {RatAbs(v[i]) : i \in 1 .. Len(v)} :
             \A i \in 1 .. Len(v) : RatLE(RatAbs(v[i]), m)

RECURSIVE RatSum(_, _)
\* the sum of a list of floats from position k on
RatSum(list, k) ==
    IF k > Len(list) THEN Int2Rat(0) ELSE RatAdd(list[k], RatSum(list, k + 1))

\* np.mean(list)
Mean(list) == RatDiv(RatSum(list, 1), Len(list))

RECURSIVE IntSum(_, _)
\* sum(list) of a list of ints, from position k on
IntSum(list, k) == IF k > Len(list) THEN 0 ELSE list[k] + IntSum(list, k + 1)

\* validate_range_exclusive_max(name, value, minimum, maximum)
InRangeExclusiveMax(value, minimum, maximum) ==
    RatLE(Int2Rat(minimum), value) /\ RatLT(value, Int2Rat(maximum))

\* AQGD(maxiter, eta, momentum, ptol, otol, averaging); the histories, the
\* counters and _converged are attributes that optimize creates
AQGD(maxiter, eta, momentum, ptol, otol, averaging) ==
    IF Len(maxiter) # Len(eta) \/ Len(maxiter) # Len(momentum)
    THEN [raised |-> "AquaError", obj |-> None]
    ELSE IF \E i \in 1 .. Len(momentum) : ~InRangeExclusiveMax(momentum[i], 0, 1)
    THEN [raised |-> "ValueError", obj |-> None]
    ELSE [raised |-> "none",
          obj |-> Some([_eta |-> eta, _maxiter |-> maxiter, _momenta_coeff |-> momentum,
                        _ptol |-> ptol, _otol |-> otol, _averaging |-> averaging,
                        _avg_objval |-> None, _prev_param |-> None,
                        _prev_loss |-> <<>>, _eval_count |-> 0, _iter |-> 0,
                        _converged |-> FALSE])]

\* compute_objective_fn_and_gradient(params, obj), where values is what obj
\* returns for the 2 * num_params + 1 parameter sets
compute_objective_fn_and_gradient(self, params, values) ==
    LET num_params == Len(params)
    IN  [self |-> [self EXCEPT !._eval_count = @ + 2 * num_params + 1],
         obj_value |-> values[1],
         gradient |-> [i \in 1 .. num_params |->
                          RatDiv(RatSub(values[1 + i], values[1 + num_params + i]), 2)]]

\* update(params, gradient, mprev, step_size, momentum_coeff)
update(params, gradient, mprev, step_size, momentum_coeff) ==
    LET mnew == [i \in 1 .. Len(params) |->
                    RatAdd(RatTimes(RatSub(Int2Rat(1), momentum_coeff), gradient[i]),
                           RatTimes(momentum_coeff, mprev[i]))]
    IN  [params |-> [i \in 1 .. Len(params) |->
                        RatSub(params[i], RatTimes(step_size, mnew[i]))],
         momentum |-> mnew]

\* converged_objective(objval, tol, n)
converged_objective(self, objval, tol, n) ==
    IF Len(self._prev_loss) < n
    THEN [self |-> [self EXCEPT !._prev_loss = Append(@, objval)], ret |-> FALSE]
    ELSE LET losses == Append(self._prev_loss, objval)
             prev_avg == Mean(SubSeq(losses, 1, n))
             curr_avg == Mean(SubSeq(losses, 2, n + 1))
         IN  [self |-> [self EXCEPT !._avg_objval = Some(curr_avg),
                                    !._prev_loss = Tail(losses)],
              ret |-> RatLT(RatAbs(RatSub(prev_avg, curr_avg)), tol)]

\* converged_parameter(parameter, tol)
converged_parameter(self, parameter, tol) ==
    IF self._prev_param = None
    THEN [self |-> [self EXCEPT !._prev_param = Some(parameter)], ret |-> FALSE]
    ELSE LET p_change == NormInf([i \in 1 .. Len(parameter) |->
                                     RatSub(Val(self._prev_param)[i], parameter[i])])
         IN  [self |-> self, ret |-> RatLT(p_change, tol)]

-----------------------------------------------------------------------------
(* One optimizer, and one call of optimize on it, in the steps of its loops. *)

\* the largest total number of iterations of a schedule
MaxIters == 3

\* the largest number of epochs of a schedule
MaxEpochs == 2

\* the largest number of parameters
MaxVars == 2

\* the tolerances ptol and otol
Tolerance == <<1, 2>>

Epochs == 1 .. MaxEpochs

\* the values of maxiter
MaxiterLists ==
    {m \in UNION {[1 .. k -> 0 .. MaxIters] : k \in Epochs} : IntSum(m, 1) <= MaxIters}

\* the values of eta
EtaLists == UNION {[1 .. k -> {Int2Rat(1)}] : k \in Epochs}

\* the values of momentum
MomentumLists == UNION {[1 .. k -> {Int2Rat(0), <<1, 2>>}] : k \in Epochs} \cup {<<Int2Rat(1)>>}

\* the values of averaging
Windows == {1, 2}

\* the values an objective function returns
ObjectiveValues == {Int2Rat(0), Int2Rat(2)}

InitAqgd ==
    /\ NewProgram
    /\ NoSubstitution
    /\ NoIsing
    /\ NoQubo
    /\ NoOperators
    /\ NoAqgd

AqgdStep == UNCHANGED <<progVars, opVars>>

\* the frame of optimize is at the label
At(label) == aqgdFrame # None /\ Val(aqgdFrame).pc = label

\* AQGD(maxiter=..., eta=..., momentum=..., ptol=0.5, otol=0.5, averaging=...)
NewAQGD ==
    \E maxiter \in MaxiterLists, eta \in EtaLists, momentum \in MomentumLists,
       averaging \in Windows :
        LET r == AQGD(maxiter, eta, momentum, Tolerance, Tolerance, averaging) IN
        /\ aqgd = None /\ aqgdFrame = None
        /\ IF r.raised # "none"
           THEN /\ aqgdFrame' = Some([pc |-> "raised", raised |-> r.raised, num_vars |-> 0,
                                      params |-> <<>>, momentum |-> <<>>, epoch |-> 0,
                                      sum_max_iters |-> 0, objval |-> None, ret |-> None])
                /\ UNCHANGED aqgd
           ELSE /\ aqgd' = r.obj
                /\ UNCHANGED aqgdFrame
        /\ UNCHANGED aqgdLog
        /\ AqgdStep

\* optimize(num_vars, objective_function, initial_point=[0.0] * num_vars), up
\* to the loop over the epochs
Optimize ==
    \E num_vars \in 1 .. MaxVars :
        /\ aqgd # None /\ aqgdFrame = None
        /\ aqgd' = Some([Val(aqgd) EXCEPT !._prev_loss = <<>>, !._prev_param = None,
                                          !._eval_count = 0, !._iter = 0,
                                          !._converged = FALSE])
        /\ aqgdFrame' = Some([pc |-> "for", raised |-> "none", num_vars |-> num_vars,
                              params |-> ZeroVector(num_vars),
                              momentum |-> ZeroVector(num_vars), epoch |-> 0,
                              sum_max_iters |-> 0, objval |-> None, ret |-> None])
        /\ UNCHANGED aqgdLog
        /\ AqgdStep

\* for (eta, mom_coeff) in zip(self._eta, self._momenta_coeff): the next
\* epoch, or the end of the loop
ForEpoch ==
    /\ At("for")
    /\ LET f == Val(aqgdFrame)
           self == Val(aqgd)
       IN  IF f.epoch < Len(self._eta)
           THEN aqgdFrame' = Some([f EXCEPT !.pc = "while",
                                            !.sum_max_iters =
                                                IntSum(SubSeq(self._maxiter, 1, f.epoch + 1), 1)])
           ELSE aqgdFrame' = Some([f EXCEPT !.pc = "return"])
    /\ UNCHANGED <<aqgd, aqgdLog>>
    /\ AqgdStep

\* while self._iter < sum_max_iters: the count and the parameter test
Iterate ==
    /\ At("while")
    /\ Val(aqgd)._iter < Val(aqgdFrame).sum_max_iters
    /\ LET f == Val(aqgdFrame)
           counted == [Val(aqgd) EXCEPT !._iter = @ + 1]
           r == converged_parameter(counted, f.params, counted._ptol)
       IN  /\ aqgd' = Some([r.self EXCEPT !._converged = r.ret])
           /\ aqgdFrame' = Some([f EXCEPT !.pc = IF r.ret THEN "return" ELSE "evaluate"])
           /\ aqgdLog' = Append(aqgdLog, [iter |-> counted._iter, params |-> f.params,
                                          converged |-> r.ret, evaluated |-> FALSE])
    /\ AqgdStep

\* the end of the while loop: the next epoch unless converged
EndWhile ==
    /\ At("while")
    /\ ~(Val(aqgd)._iter < Val(aqgdFrame).sum_max_iters)
    /\ LET f == Val(aqgdFrame)
       IN  IF Val(aqgd)._converged
           THEN aqgdFrame' = Some([f EXCEPT !.pc = "return"])
           ELSE aqgdFrame' = Some([f EXCEPT !.pc = "for", !.epoch = @ + 1])
    /\ UNCHANGED <<aqgd, aqgdLog>>
    /\ AqgdStep

\* the rest of an iteration: the objective and its gradient, the objective
\* test and the update of the parameters
Evaluate ==
    \E values \in UNION {[1 .. 2 * n + 1 -> ObjectiveValues] : n \in 1 .. MaxVars} :
        /\ At("evaluate")
        /\ Len(values) = 2 * Val(aqgdFrame).num_vars + 1
        /\ LET f == Val(aqgdFrame)
               e == compute_objective_fn_and_gradient(Val(aqgd), f.params, values)
               c == converged_objective(e.self, e.obj_value, e.self._otol, e.self._averaging)
               u == update(f.params, e.gradient, f.momentum, e.self._eta[f.epoch + 1],
                           e.self._momenta_coeff[f.epoch + 1])
           IN  /\ aqgd' = Some([c.self EXCEPT !._converged = c.ret])
               /\ IF c.ret
                  THEN aqgdFrame' = Some([f EXCEPT !.pc = "return",
                                                   !.objval = Some(e.obj_value)])
                  ELSE aqgdFrame' = Some([f EXCEPT !.pc = "while",
                                                   !.objval = Some(e.obj_value),
                                                   !.params = u.params,
                                                   !.momentum = u.momentum])
               /\ aqgdLog' = [aqgdLog EXCEPT ![Len(aqgdLog)].evaluated = TRUE]
        /\ AqgdStep

\* return params, objval, self._eval_count; objval is unbound when no
\* iteration has run
ReturnFromOptimize ==
    /\ At("return")
    /\ LET f == Val(aqgdFrame)
       IN  IF f.objval = None
           THEN aqgdFrame' = Some([f EXCEPT !.pc = "raised", !.raised = "UnboundLocalError"])
           ELSE aqgdFrame' = Some([f EXCEPT !.pc = "done",
                                            !.ret = Some([params |-> f.params,
                                                          objval |-> Val(f.objval),
                                                          eval_count |-> Val(aqgd)._eval_count])])
    /\ UNCHANGED <<aqgd, aqgdLog>>
    /\ AqgdStep

NextAqgd ==
    \/ NewAQGD
    \/ Optimize
    \/ ForEpoch
    \/ Iterate
    \/ EndWhile
    \/ Evaluate
    \/ ReturnFromOptimize

SpecAqgd == InitAqgd /\ [][NextAqgd]_vars

(***************************************************************************)
(* AQGD.optimize: the parameter-convergence test                           *)
(***************************************************************************)

\* the iterations of the call so far whose gradient was computed
GradientComputations == {k \in 1 .. Len(aqgdLog) : aqgdLog[k].evaluated}

\* the infinity-norm of the change of the parameters between the iterations
\* k - 1 and k
ParameterChange(k) ==
    NormInf([i \in 1 .. Len(aqgdLog[k].params) |->
                RatSub(aqgdLog[k].params[i], aqgdLog[k - 1].params[i])])

\* at every iteration after the first the test is true exactly when the
\* parameters changed by less than ptol since the previous iteration
TestsTheChange ==
    \A k \in 2 .. Len(aqgdLog) :
        aqgdLog[k].converged <=> RatLT(ParameterChange(k), Val(aqgd)._ptol)

\* a true test ends optimize without a further objective evaluation
StopsWhenConverged ==
    \A k \in 1 .. Len(aqgdLog) :
        aqgdLog[k].converged =>
            /\ k = Len(aqgdLog)
            /\ ~aqgdLog[k].evaluated
            /\ Val(aqgdFrame).pc \in {"return", "done"}

\* C30: in AQGD.optimize the parameter-convergence test tests the change in
\* the parameters: at every iteration after the first it is true exactly when
\* the infinity-norm of the difference between the current parameters and
\* those of the previous iteration is below ptol, and when it is true optimize
\* stops all epochs without a further objective evaluation; the number of
\* iterations never exceeds sum(maxiter), and the returned evaluation count is
\* (2 * num_vars + 1) times the number of gradient computations.
C30_ParameterConvergence ==
    (aqgd # None /\ aqgdFrame # None /\ Val(aqgdFrame).raised = "none") =>
        /\ TestsTheChange
        /\ StopsWhenConverged
        /\ Val(aqgd)._iter = Len(aqgdLog)
        /\ Val(aqgd)._iter <= IntSum(Val(aqgd)._maxiter, 1)
        /\ At("done") =>
               Val(Val(aqgdFrame).ret).eval_count
                   = (2 * Val(aqgdFrame).num_vars + 1) * Cardinality(GradientComputations)

====
